---- MODULE Spec2Model ----
(***************************************************************************)
(* quickurl: the benchmark engine (src/engine.rs), the per-task HTTP       *)
(* client state machine (src/http_client.rs) and the statistics collector  *)
(* (src/stats.rs).                                                         *)
(*                                                                         *)
(* Time.  The clock is discrete: one second is TicksPerSec ticks.          *)
(* Durations the user configures are kept in milliseconds, as the          *)
(* std::time::Duration values the code computes with; Ticks(ms) is the     *)
(* first tick at which a timer of that length can be seen to have expired. *)
(* The per-request timer of HttpClient::request is urgent (time does not   *)
(* advance past its expiry while it is pending), every other timer may     *)
(* fire late.  Clocks saturate at the first value from which no comparison *)
(* of the code can change any more.                                        *)
(*                                                                         *)
(* Option<T> is modelled as a set with at most one element: {} is None.    *)
(***************************************************************************)
EXTENDS Integers, Sequences, FiniteSets, TLC

\* ------------------------------------------------------------------ bounds

\* clock resolution: ticks per second
TicksPerSec == 2
\* a task issues at most this many requests before the deadline
MaxReq == 2
\* a task establishes at most this many connections during the run
MaxConn == 2
\* num_cpus::get_physical() of the machine the run is on
NumPhysicalCpus == 1
\* number of record calls explored by SpecStats
MaxRecords == 3
\* snapshots the stats updater delivers in a run
MaxSnapshots == 2
\* requests issued by all tasks together in a run with several templates or a rate
MaxSelect == 4

\* --threads, --connections, --rate, --timeout (ms), --duration (ms), --live-ui
ThreadsArgs == {1, 2}
ConnectionsArgs == {1}
RateArgs == {0, 1}
TimeoutArgs == {100, 1000}
DurationArgs == {500}
LiveUiArgs == {FALSE, TRUE}

\* the run configurations explored: every combination with one worker thread, and
\* with more than one worker thread the headless, unpaced ones
Runs ==
  {r \in [live_ui : LiveUiArgs, timeout : TimeoutArgs, rate : RateArgs, duration : DurationArgs,
          threads : ThreadsArgs, connections : ConnectionsArgs] :
     r.threads > 1 => ~r.live_ui /\ r.rate = 0}

\* status codes and body sizes the server answers with
StatusSet == {200, 500}
BodySizes == {4}

\* the URLs of the request templates, as written (cmd.url), in file order
Urls == <<"/a?id={{id}}", "/b", "/c">>

\* --load-strategy
RoundRobin == "round-robin"
Random == "random"

\* ------------------------------------------------------------------ helpers

Min(a, b) == IF a < b THEN a ELSE b
Max(a, b) == IF a > b THEN a ELSE b

RECURSIVE SumOver(_, _)
\* the sum of f over the finite set S
SumOver(f, S) == IF S = {} THEN 0 ELSE LET x == CHOOSE y \in S : TRUE IN f[x] + SumOver(f, S \ {x})

\* first tick count at which ms milliseconds are seen to have passed
Ticks(ms) == (ms * TicksPerSec + 999) \div 1000

\* Duration::as_secs
AsSecs(ms) == ms \div 1000

\* error descriptions built by HttpClient::request (anyhow! prefixes)
ErrInvalidUrl == "Invalid URL"
ErrBuild == "Failed to build request"
ErrConnect == "Failed to connect"
ErrHandshake == "Failed to handshake"
ErrSend == "Request failed"
ErrTimeout == "Request timeout"
ErrorKinds == {ErrInvalidUrl, ErrBuild, ErrConnect, ErrHandshake, ErrSend, ErrTimeout}

\* ------------------------------------------------------------------ statistics (stats.rs)

\* *map.entry(k).or_insert(0) += 1
MapInc(m, k) ==
  [x \in DOMAIN m \cup {k} |-> IF x = k THEN (IF k \in DOMAIN m THEN m[k] ELSE 0) + 1 ELSE m[x]]

\* EndpointStats::new
NewEndpointStats == [requests |-> 0, errors |-> 0, total_bytes |-> 0, status_codes |-> <<>>]

\* an endpoint's entry counts requests and bytes, never errors
EndpointRecordNoErrors(e, r) ==
  [requests |-> e.requests + 1,
   errors |-> e.errors,
   total_bytes |-> e.total_bytes + r.bytes_read,
   status_codes |-> IF r.status_code # {}
                    THEN MapInc(e.status_codes, CHOOSE s \in r.status_code : TRUE)
                    ELSE e.status_codes]

\* EndpointStats::record
EndpointRecord(e, r) ==
  [requests |-> e.requests + 1,
   errors |-> IF r.error # {} THEN e.errors + 1 ELSE e.errors,
   total_bytes |-> e.total_bytes + r.bytes_read,
   status_codes |-> IF r.status_code # {}
                    THEN MapInc(e.status_codes, CHOOSE s \in r.status_code : TRUE)
                    ELSE e.status_codes]

\* Statistics::new
NewStatistics ==
  [end_time |-> {}, total_requests |-> 0, successful_requests |-> 0, failed_requests |-> 0,
   total_bytes |-> 0, status_codes |-> <<>>, errors |-> <<>>, endpoint_stats |-> <<>>]

\* the condition of the success/failure branch of Statistics::record
IsFailure(r) == r.error # {}

\* an outcome counts as successful whenever it carries a status
SuccessIncByStatus(r) == IF r.status_code # {} THEN 1 ELSE 0

\* the else branch of Statistics::record: successful_requests += 1
SuccessInc(r) == IF IsFailure(r) THEN 0 ELSE 1

\* Statistics::record
Record(s, r) ==
  [s EXCEPT
    !.total_requests = @ + 1,
    !.failed_requests = IF IsFailure(r) THEN @ + 1 ELSE @,
    !.errors = IF IsFailure(r) THEN MapInc(@, CHOOSE m \in r.error : TRUE) ELSE @,
    !.successful_requests = @ + SuccessInc(r),
    !.status_codes = IF r.status_code # {} THEN MapInc(@, CHOOSE c \in r.status_code : TRUE) ELSE @,
    !.total_bytes = @ + r.bytes_read,
    !.endpoint_stats =
       IF r.endpoint # {}
       THEN LET ep == CHOOSE u \in r.endpoint : TRUE
                old == IF ep \in DOMAIN @ THEN @[ep] ELSE NewEndpointStats
            IN [x \in DOMAIN @ \cup {ep} |-> IF x = ep THEN EndpointRecord(old, r) ELSE @[x]]
       ELSE @]

\* a finish that leaves end_time unset
FinishNoop(s, t) == s

\* hdrhistogram, Histogram::<u64>::new(3): three significant digits, lowest
\* discernible value 1, the range grows with the values recorded.  Values below
\* 2048 have a bucket each; from there on the bucket width doubles with the value.
SignificantDigits == 3

\* the least power of two at or above n, from p up
RECURSIVE PowerOfTwoFrom(_, _)
PowerOfTwoFrom(n, p) == IF p >= n THEN p ELSE PowerOfTwoFrom(n, 2 * p)

\* sub_bucket_count: room for 2 * 10^SignificantDigits values of one unit each
SubBucketCount == PowerOfTwoFrom(2 * (10 ^ SignificantDigits), 1)

\* size_of_equivalent_range(v)
RECURSIVE Width(_)
Width(v) == IF v < SubBucketCount THEN 1 ELSE 2 * Width(v \div 2)

LowestEquivalent(v) == v - (v % Width(v))
HighestEquivalent(v) == LowestEquivalent(v) + Width(v) - 1
\* a median outside the bucket, above its highest value
MedianAbove(v) == LowestEquivalent(v) + 2 * Width(v)
MedianEquivalent(v) == LowestEquivalent(v) + (Width(v) \div 2)

\* Histogram::new: no sample, max_value 0, min_non_zero_value unset
NewHistogram == [counts |-> <<>>, total_count |-> 0, max_value |-> 0, min_non_zero_value |-> {}]

\* a histogram of fixed range 1..2: record fails above it and adds no sample
HistRecordFixedRange(h, v) ==
  IF v > 2 THEN h
  ELSE [counts |-> MapInc(h.counts, LowestEquivalent(v)),
        total_count |-> h.total_count + 1,
        max_value |-> Max(h.max_value, v),
        min_non_zero_value |-> IF v = 0 THEN h.min_non_zero_value
                               ELSE {Min(v, m) : m \in h.min_non_zero_value \cup {v}}]

\* Histogram::record(v) with auto-resize: counts are kept per bucket, keyed here by
\* the bucket's lowest value
HistRecord(h, v) ==
  [counts |-> MapInc(h.counts, LowestEquivalent(v)),
   total_count |-> h.total_count + 1,
   max_value |-> Max(h.max_value, v),
   min_non_zero_value |-> IF v = 0 THEN h.min_non_zero_value
                          ELSE {Min(v, m) : m \in h.min_non_zero_value \cup {v}}]

\* Histogram::min
HistMin(h) ==
  IF h.total_count = 0 \/ 0 \in DOMAIN h.counts THEN 0
  ELSE LowestEquivalent(CHOOSE m \in h.min_non_zero_value : TRUE)

\* Histogram::max
HistMax(h) == IF h.max_value = 0 THEN 0 ELSE HighestEquivalent(h.max_value)

\* Histogram::mean as u64: the mean of the buckets' medians, truncated
HistMean(h) ==
  IF h.total_count = 0 THEN 0
  ELSE SumOver([b \in DOMAIN h.counts |-> MedianEquivalent(b) * h.counts[b]], DOMAIN h.counts)
         \div h.total_count

\* Histogram::value_at_percentile(p): the highest value of the first bucket at
\* which the running count reaches ceil(p% of total_count), at least one
HistValueAtPercentile(h, p) ==
  LET target == Max(1, (p * h.total_count + 99) \div 100)
      upto(b) == SumOver([x \in {y \in DOMAIN h.counts : y <= b} |-> h.counts[x]],
                         {y \in DOMAIN h.counts : y <= b})
      reached == {b \in DOMAIN h.counts : upto(b) >= target}
  IN IF reached = {} THEN 0
     ELSE HighestEquivalent(CHOOSE b \in reached : \A c \in reached : b <= c)

\* Statistics::avg_latency, EndpointStats::avg_latency, microseconds
AvgLatency(requests, h) == IF requests = 0 THEN 0 ELSE HistMean(h)

\* the latency fields of StatisticsSnapshot::from_statistics, in microseconds (the
\* snapshot holds each of them divided by 1000.0, as f64 milliseconds)
LatencySnapshot(requests, h) ==
  [avg |-> AvgLatency(requests, h), min |-> HistMin(h), max |-> HistMax(h),
   p50 |-> HistValueAtPercentile(h, 50), p75 |-> HistValueAtPercentile(h, 75),
   p90 |-> HistValueAtPercentile(h, 90), p95 |-> HistValueAtPercentile(h, 95),
   p99 |-> HistValueAtPercentile(h, 99)]

\* Statistics::finish
Finish(s, t) == [s EXCEPT !.end_time = {t}]

\* the snapshot carries the counters and empty maps
FromStatisticsCountersOnly(s) ==
  [total_requests |-> s.total_requests, successful_requests |-> s.successful_requests,
   failed_requests |-> s.failed_requests, total_bytes |-> s.total_bytes,
   status_codes |-> <<>>, errors |-> <<>>, endpoint_stats |-> <<>>]

\* StatisticsSnapshot::from_statistics: the counters and maps, neither end_time nor
\* the duration
FromStatistics(s) ==
  [total_requests |-> s.total_requests, successful_requests |-> s.successful_requests,
   failed_requests |-> s.failed_requests, total_bytes |-> s.total_bytes,
   status_codes |-> s.status_codes, errors |-> s.errors, endpoint_stats |-> s.endpoint_stats]


\* ------------------------------------------------------------------ state

VARIABLES
  threads,                \* Args.threads
  connections,            \* Args.connections
  commands,               \* commands.len(): the number of request templates
  load_strategy,          \* Args.load_strategy
  live_ui,                \* Args.live_ui: which run path is taken
  timeout,                \* HttpClient.timeout, milliseconds
  rate,                   \* Args.rate
  end_time,               \* the shared deadline, ticks
  actual_threads,         \* worker threads started
  connections_per_thread, \* tasks per worker thread
  now,                    \* Instant::now(), ticks, saturating at end_time
  pc,                     \* per task: position in the task body
  request_count,          \* per task: request_count
  elapsed,                \* per task: ticks since the current request call began
  slept,                  \* per task: ticks since the rate-limit sleep began
  send_request,           \* per task: the sender local to the running request call
  cmd,                    \* per task: index of the template selected for the current request
  picked,                 \* per task: the indices selected so far, in order
  since_start,            \* per task: ticks since its latest start timestamp
  pool,                   \* the ConnectionPool: clients and next_index
  client,                 \* per task: the client get_client handed to it
  handed,                 \* <<counter value read, client returned>> of every get_client call, in order
  client_state,           \* per ClientState: state.send_request
  inflight,               \* per ClientState: request calls entered and not yet returned
  established,            \* per task: connections established so far
  clean,                  \* per task: no error outcome and no not-ready sender so far
  late_published,         \* an outcome was published at or after the deadline
  q,                      \* the kanal channel's queue
  cpc,                    \* collector thread: position
  waited,                 \* collector: ticks since recv_timeout began
  stats,                  \* the collector's Statistics
  shared,                 \* the mutex-guarded Statistics of the live-UI path
  log,                    \* ids <<task, seq>> of the outcomes the collector recorded, in order
  last,                   \* SpecStats: the outcome of the latest record call
  mpc,                    \* the driver (run_workers / run_workers_with_ui_updates): position
  hist,                   \* Statistics.latency_histogram
  ephist,                 \* per endpoint: EndpointStats.latency_histogram
  ui,                     \* the LiveUI task: "none" (not modelled), "run", "ended"
  should_stop,            \* LiveUI.should_stop
  ui_chan,                \* the snapshot channel ui_tx -> ui_rx
  upc,                    \* the stats updater task: position
  usince,                 \* updater: ticks since last_update
  usnap,                  \* updater: the snapshot it built
  uabort,                 \* stats_updater_handle.abort() has been called
  mutex,                  \* the shared-statistics mutex: the thread holding it
  snapshots_sent,         \* snapshots the updater has sent
  variables,              \* TemplateEngine.variables: name -> VariableType
  sequences,              \* TemplateEngine.sequences: name -> counter
  add_result,             \* what the latest add_variable returned: "none", "ok", "err"
  calls,                  \* the process calls made, in order: text and result
  parsed,                 \* the latest parse_duration_string call: string and result
  rb,                     \* run_benchmark: position at, --var index i, duration and timeout parsed (ms)
  args,                   \* the Args run_benchmark was called with
  curl,                   \* the latest parse_curl_command call: command line and result
  peer                    \* per ClientState: the authority its latest sender was connected to

vars == <<threads, connections, commands, load_strategy, live_ui, timeout, rate, end_time,
          actual_threads, connections_per_thread, now,
          pc, request_count, elapsed, slept, send_request, cmd, picked, since_start,
          pool, client, handed, client_state, inflight,
          established, clean, late_published, q, cpc, waited, stats, shared, log, last,
          mpc, hist, ephist,
          ui, should_stop, ui_chan, upc, usince, usnap, uabort, mutex, snapshots_sent,
          variables, sequences, add_result, calls, parsed, rb, args, curl, peer>>

config == <<threads, connections, commands, load_strategy, live_ui, timeout, rate, end_time,
            actual_threads, connections_per_thread>>
selVars == <<cmd, picked, since_start>>
poolVars == <<pool, client, handed>>
taskVars == <<pc, request_count, elapsed, slept, send_request>>
connVars == <<client_state, inflight, established, clean>>
chanVars == <<q, late_published>>
collVars == <<cpc, waited, stats, shared, log, last>>
mainVars == <<mpc>>
histVars == <<hist, ephist>>
uiVars == <<ui, should_stop, ui_chan>>
updVars == <<upc, usnap, uabort, snapshots_sent>>
liveVars == <<uiVars, updVars, usince, mutex>>
tplVars == <<variables, sequences, add_result, calls>>
durVars == <<parsed>>
cfgVars == <<rb, args>>
curlVars == <<curl>>
peerVars == <<peer>>
pureVars == <<tplVars, durVars, cfgVars, curlVars, peerVars>>
\* the state no step of a worker task touches
sideVars == <<histVars, liveVars, pureVars>>

\* no latency recorded
HistInit ==
  /\ hist = NewHistogram
  /\ ephist = <<>>

\* the live UI's tasks are left out
UiIdle ==
  /\ ui = "none"
  /\ should_stop = FALSE
  /\ ui_chan = <<>>
  /\ upc = "none"
  /\ usince = 0
  /\ usnap = {}
  /\ uabort = FALSE
  /\ mutex = {}
  /\ snapshots_sent = 0

\* ------------------------------------------------------------------ strings
\* A string is the sequence of its characters, each a one-character string.

\* str::starts_with
StartsWith(s, p) == Len(s) >= Len(p) /\ SubSeq(s, 1, Len(p)) = p

\* str::ends_with
EndsWith(s, p) == Len(s) >= Len(p) /\ SubSeq(s, Len(s) - Len(p) + 1, Len(s)) = p

\* the slice &s[n..]
SkipTo(s, n) == SubSeq(s, n + 1, Len(s))

\* the slice &s[..s.len() - n]
DropLast(s, n) == SubSeq(s, 1, Len(s) - n)

\* str::find(c): the position of the first c, 0 when there is none
FindChar(s, c) ==
  IF \E i \in 1..Len(s) : s[i] = c
  THEN CHOOSE i \in 1..Len(s) : s[i] = c /\ \A j \in 1..(i - 1) : s[j] # c
  ELSE 0

RECURSIVE Split(_, _)
\* str::split(c), collected
Split(s, c) ==
  IF FindChar(s, c) = 0 THEN <<s>>
  ELSE <<SubSeq(s, 1, FindChar(s, c) - 1)>> \o Split(SkipTo(s, FindChar(s, c)), c)

\* HashMap::insert
Insert(m, k, v) == [x \in DOMAIN m \cup {k} |-> IF x = k THEN v ELSE m[x]]

DigitChars == <<"0", "1", "2", "3", "4", "5", "6", "7", "8", "9">>

IsDigit(c) == \E d \in 1..Len(DigitChars) : DigitChars[d] = c

DigitValue(c) == (CHOOSE d \in 1..Len(DigitChars) : DigitChars[d] = c) - 1

RECURSIVE DecimalValue(_)
\* the number a non-empty run of digits denotes
DecimalValue(s) ==
  IF Len(s) = 1 THEN DigitValue(s[1])
  ELSE 10 * DecimalValue(DropLast(s, 1)) + DigitValue(s[Len(s)])

RECURSIVE NumToString(_)
\* u64::to_string / i64::to_string
NumToString(n) ==
  IF n < 0 THEN <<"-">> \o NumToString(0 - n)
  ELSE IF n < 10 THEN <<DigitChars[n + 1]>>
  ELSE NumToString(n \div 10) \o <<DigitChars[(n % 10) + 1]>>

\* a Result of a parse: Ok(val) or Err
Ok(v) == [ok |-> TRUE, val |-> v]
Err == [ok |-> FALSE, val |-> 0]

AllDigits(s) == s # <<>> /\ \A i \in 1..Len(s) : IsDigit(s[i])

\* A wide number is the sequence of its decimal digits, most significant first and
\* with no leading zero: u64 values do not fit the integers of the model.
Digits(s) == [i \in 1..Len(s) |-> DigitValue(s[i])]

RECURSIVE Strip(_)
\* without its leading zeros
Strip(d) == IF Len(d) > 1 /\ d[1] = 0 THEN Strip(Tail(d)) ELSE d

\* a < b
Less(a, b) ==
  \/ Len(a) < Len(b)
  \/ /\ Len(a) = Len(b)
     /\ \E i \in 1..Len(a) : a[i] < b[i] /\ \A j \in 1..(i - 1) : a[j] = b[j]

RECURSIVE MulCarry(_, _, _)
\* a * k + carry, leading zeros kept
MulCarry(a, k, carry) ==
  IF a = <<>> THEN (IF carry = 0 THEN <<>> ELSE MulCarry(<<carry>>, 1, 0))
  ELSE MulCarry(DropLast(a, 1), k, (a[Len(a)] * k + carry) \div 10)
         \o <<(a[Len(a)] * k + carry) % 10>>

\* a * k
Times(a, k) == Strip(<<0>> \o MulCarry(a, k, 0))

RECURSIVE SubBorrow(_, _, _)
\* a - b - borrow for a >= b + borrow, leading zeros kept
SubBorrow(a, b, borrow) ==
  IF a = <<>> THEN <<>>
  ELSE LET y == (IF b = <<>> THEN 0 ELSE b[Len(b)]) + borrow
           x == a[Len(a)]
       IN SubBorrow(DropLast(a, 1), IF b = <<>> THEN <<>> ELSE DropLast(b, 1),
                    IF x < y THEN 1 ELSE 0)
            \o <<IF x < y THEN x + 10 - y ELSE x - y>>

\* a - b for a >= b
Minus(a, b) == Strip(SubBorrow(a, b, 0))

\* 2^64 and 2^63
TwoTo64 == Digits(<<"1", "8", "4", "4", "6", "7", "4", "4", "0", "7", "3", "7", "0", "9", "5", "5", "1", "6", "1", "6">>)
TwoTo63 == Digits(<<"9", "2", "2", "3", "3", "7", "2", "0", "3", "6", "8", "5", "4", "7", "7", "5", "8", "0", "8">>)

\* a mod 2^64 for a < k * 2^64: u64 wrapping arithmetic
WrapU64(a, k) ==
  CHOOSE r \in {Minus(a, t) : t \in {Times(TwoTo64, w) : w \in {x \in 0..(k - 1) :
                   ~Less(a, Times(TwoTo64, x)) /\ Less(a, Times(TwoTo64, x + 1))}}} : TRUE

\* str::parse::<u64>, the value as a wide number: digits with an optional leading
\* plus sign, an error when the value does not fit 64 bits
ParseU64Wide(s) ==
  LET body == IF s # <<>> /\ s[1] = "+" THEN Tail(s) ELSE s IN
  IF AllDigits(body) /\ Less(Strip(Digits(body)), TwoTo64)
  THEN Ok(Strip(Digits(body))) ELSE Err

\* str::parse::<u64>, for the values that fit the integers of the model
ParseU64(s) ==
  IF ParseU64Wide(s).ok
  THEN Ok(DecimalValue(IF s[1] = "+" THEN Tail(s) ELSE s)) ELSE Err

\* str::parse::<i64>, for the values that fit the integers of the model: digits with
\* an optional leading sign
ParseI64(s) ==
  IF s # <<>> /\ s[1] = "-"
  THEN IF AllDigits(Tail(s)) /\ ~Less(TwoTo63, Strip(Digits(Tail(s))))
       THEN Ok(0 - DecimalValue(Tail(s))) ELSE Err
  ELSE IF ParseU64Wide(s).ok /\ Less(ParseU64Wide(s).val, TwoTo63)
       THEN ParseU64(s) ELSE Err

\* ------------------------------------------------------------------ templates (template.rs)

\* a VariableType; the fields a kind does not use are left at their defaults
Var(kind) ==
  [kind |-> kind, min |-> 0, max |-> 0, start |-> 0, options |-> <<>>, value |-> <<>>,
   format |-> "Unix"]

\* parse_timestamp_format
ParseTimestampFormat(f) ==
  IF f = <<"u", "n", "i", "x">> THEN Ok("Unix")
  ELSE IF f = <<"u", "n", "i", "x", "_", "m", "s">> THEN Ok("UnixMs")
  ELSE IF f = <<"r", "f", "c", "3", "3", "3", "9">> THEN Ok("Rfc3339")
  ELSE IF f = <<"i", "s", "o", "8", "6", "0", "1">> THEN Ok("Iso8601")
  ELSE IF f = <<"d", "a", "t", "e">> THEN Ok("Date")
  ELSE IF f = <<"t", "i", "m", "e">> THEN Ok("Time")
  ELSE Err

\* the random: arm of parse_variable_definition
ParseRandom(range) ==
  LET parts == Split(range, "-") IN
  IF Len(parts) # 2 THEN Err
  ELSE IF ~ParseI64(parts[1]).ok \/ ~ParseI64(parts[2]).ok THEN Err
  ELSE Ok([Var("Random") EXCEPT !.min = ParseI64(parts[1]).val,
                                !.max = ParseI64(parts[2]).val])

\* the timestamp: / now: arm of parse_variable_definition
ParseTimestamp(f) ==
  IF ParseTimestampFormat(f).ok
  THEN Ok([Var("Timestamp") EXCEPT !.format = ParseTimestampFormat(f).val])
  ELSE Err

\* the sequence: arm of parse_variable_definition
ParseSequence(s) ==
  IF ParseU64(s).ok THEN Ok([Var("Sequence") EXCEPT !.start = ParseU64(s).val]) ELSE Err

\* parse_variable_definition
ParseVariableDefinition(def) ==
  IF StartsWith(def, <<"r", "a", "n", "d", "o", "m", ":">>) THEN ParseRandom(SkipTo(def, 7))
  ELSE IF def = <<"u", "u", "i", "d">> THEN Ok(Var("Uuid"))
  ELSE IF StartsWith(def, <<"t", "i", "m", "e", "s", "t", "a", "m", "p", ":">>) THEN ParseTimestamp(SkipTo(def, 10))
  ELSE IF StartsWith(def, <<"n", "o", "w", ":">>) THEN ParseTimestamp(SkipTo(def, 4))
  ELSE IF def = <<"t", "i", "m", "e", "s", "t", "a", "m", "p">> \/ def = <<"n", "o", "w">> THEN Ok(Var("Timestamp"))
  ELSE IF StartsWith(def, <<"s", "e", "q", "u", "e", "n", "c", "e", ":">>) THEN ParseSequence(SkipTo(def, 9))
  ELSE IF StartsWith(def, <<"c", "h", "o", "i", "c", "e", ":">>)
    THEN IF Split(SkipTo(def, 7), ",") = <<>> THEN Err
         ELSE Ok([Var("Choice") EXCEPT !.options = Split(SkipTo(def, 7), ",")])
  ELSE Ok([Var("Static") EXCEPT !.value = def])

\* the values Uuid::new_v4().to_string() can take, two of them standing for all
UuidValues ==
  {<<"5", "5", "0", "e", "8", "4", "0", "0", "-", "e", "2", "9", "b", "-", "4", "1", "d", "4", "-", "a", "7", "1", "6", "-", "4", "4", "6", "6", "5", "5", "4", "4", "0", "0", "0", "0">>,
   <<"6", "b", "a", "7", "b", "8", "1", "0", "-", "9", "d", "a", "d", "-", "4", "1", "d", "1", "-", "8", "0", "b", "4", "-", "0", "0", "c", "0", "4", "f", "d", "4", "3", "0", "c", "8">>}

\* the seconds Utc::now().timestamp() can read
ClockSecs == {7, 8}

\* the text of the time t in a TimestampFormat; the calendar formats are kept abstract
TimestampText(format, t) ==
  IF format = "Unix" THEN NumToString(t)
  ELSE IF format = "UnixMs" THEN NumToString(t * 1000)
  ELSE IF format \in {"Rfc3339", "Iso8601"} THEN <<"T">> \o NumToString(t) \o <<"Z">>
  ELSE IF format = "Date" THEN <<"D">> \o NumToString(t)
  ELSE <<"H">> \o NumToString(t)

\* what a call inside process comes to: a value, an error, or a panic
Value(v) == [kind |-> "ok", val |-> v]
Failed == [kind |-> "err", val |-> <<>>]
Panicked == [kind |-> "panic", val |-> <<>>]

\* generate_value: every outcome it can have; the Sequence arm yields start and
\* reads no counter
GenerateValue(v) ==
  IF v.kind = "Random"
    THEN IF v.min > v.max THEN {Panicked}
         ELSE {Value(NumToString(n)) : n \in v.min..v.max}
  ELSE IF v.kind = "Uuid" THEN {Value(u) : u \in UuidValues}
  ELSE IF v.kind = "Timestamp" THEN {Value(TimestampText(v.format, t)) : t \in ClockSecs}
  ELSE IF v.kind = "Sequence" THEN {Value(NumToString(v.start))}
  ELSE IF v.kind = "Choice" THEN {Value(v.options[i]) : i \in 1..Len(v.options)}
  ELSE {Value(v.value)}

\* the prefixes and names evaluate_template takes for an inline function
IsInline(template) ==
  \/ StartsWith(template, <<"r", "a", "n", "d", "o", "m", ":">>)
  \/ StartsWith(template, <<"t", "i", "m", "e", "s", "t", "a", "m", "p", ":">>)
  \/ StartsWith(template, <<"n", "o", "w", ":">>)
  \/ StartsWith(template, <<"s", "e", "q", "u", "e", "n", "c", "e", ":">>)
  \/ StartsWith(template, <<"c", "h", "o", "i", "c", "e", ":">>)

\* evaluate_template with the engine's variables vs
EvaluateTemplate(vs, template) ==
  IF template \in DOMAIN vs THEN GenerateValue(vs[template])
  ELSE IF template = <<"u", "u", "i", "d">> THEN {Value(u) : u \in UuidValues}
  ELSE IF template = <<"t", "i", "m", "e", "s", "t", "a", "m", "p">> \/ template = <<"n", "o", "w">>
    THEN {Value(NumToString(t)) : t \in ClockSecs}
  ELSE IF IsInline(template)
    THEN IF ParseVariableDefinition(template).ok
         THEN GenerateValue(ParseVariableDefinition(template).val)
         ELSE {Failed}
  ELSE {Failed}

\* TEMPLATE_REGEX matches at the head of s: two open braces, one or more characters
\* other than a close brace, two close braces
MatchesAtHead(s) ==
  /\ StartsWith(s, <<"{", "{">>)
  /\ FindChar(SkipTo(s, 2), "}") > 1
  /\ Len(s) >= FindChar(SkipTo(s, 2), "}") + 3
  /\ s[FindChar(SkipTo(s, 2), "}") + 3] = "}"

\* the capture group of that match
Capture(s) == SubSeq(s, 3, FindChar(SkipTo(s, 2), "}") + 1)

\* the text after that match
AfterMatch(s) == SkipTo(s, FindChar(SkipTo(s, 2), "}") + 3)

\* the result of a process call: the text, or a panic
Processed(t) == [panic |-> FALSE, text |-> t]
ProcessPanicked == [panic |-> TRUE, text |-> <<>>]

\* r, with the text p put before it
Prepend(p, r) == IF r.panic THEN r ELSE Processed(p \o r.text)

\* the replacement of one placeholder: the value, or the placeholder as it stood
Replacement(template, e) ==
  IF e.kind = "ok" THEN e.val ELSE <<"{", "{">> \o template \o <<"}", "}">>

RECURSIVE Process(_, _)
\* TemplateEngine::process: every result it can have on text s
Process(vs, s) ==
  IF s = <<>> THEN {Processed(<<>>)}
  ELSE IF MatchesAtHead(s)
    THEN UNION {IF e.kind = "panic" THEN {ProcessPanicked}
                ELSE {Prepend(Replacement(Capture(s), e), r) :
                        r \in Process(vs, AfterMatch(s))} :
                e \in EvaluateTemplate(vs, Capture(s))}
  ELSE {Prepend(<<Head(s)>>, r) : r \in Process(vs, Tail(s))}

\* TemplateEngine::new
TplIdle ==
  /\ variables = <<>>
  /\ sequences = <<>>
  /\ add_result = "none"
  /\ calls = <<>>

\* ------------------------------------------------------------------ durations (cli.rs)

\* char::is_whitespace, for the characters of the model
IsSpace(c) == c \in {" ", "\t"}

RECURSIVE TrimStart(_)
TrimStart(s) == IF s # <<>> /\ IsSpace(s[1]) THEN TrimStart(Tail(s)) ELSE s

RECURSIVE TrimEnd(_)
TrimEnd(s) == IF s # <<>> /\ IsSpace(s[Len(s)]) THEN TrimEnd(DropLast(s, 1)) ELSE s

\* str::trim
Trim(s) == TrimEnd(TrimStart(s))

\* what parse_duration_string comes to: a Duration of secs seconds and millis
\* milliseconds, an error, or a panic
DurationOf(secs, millis) == [kind |-> "ok", secs |-> secs, millis |-> millis]
DurationErr == [kind |-> "err", secs |-> <<0>>, millis |-> 0]
DurationPanic == [kind |-> "panic", secs |-> <<0>>, millis |-> 0]

\* the last three digits of a wide number, as an integer
LastThree(n) == DecimalValue([i \in 1..Min(Len(n), 3) |-> DigitChars[n[Len(n) - Min(Len(n), 3) + i] + 1]])

\* Duration::from_millis
FromMillis(n) == DurationOf(IF Len(n) > 3 THEN DropLast(n, 3) ELSE <<0>>, LastThree(n))

\* Duration::from_secs
FromSecs(n) == DurationOf(n, 0)

\* num * k on u64: on overflow the build with overflow checks panics, the build
\* without them wraps
MulU64(n, k) ==
  UNION {IF Less(p, TwoTo64) THEN {p} ELSE {<<>>, WrapU64(p, k)} : p \in {Times(n, k)}}

\* one arm of parse_duration_string: the number before a suffix of len characters,
\* times k seconds
SecsArm(s, len, k) ==
  IF ~ParseU64Wide(DropLast(s, len)).ok THEN {DurationErr}
  ELSE {IF p = <<>> THEN DurationPanic ELSE FromSecs(p) :
          p \in IF k = 1 THEN {ParseU64Wide(DropLast(s, len)).val}
                ELSE MulU64(ParseU64Wide(DropLast(s, len)).val, k)}

\* parse_duration_string, on the trimmed string
ParseTrimmed(s) ==
  IF EndsWith(s, <<"m", "s">>)
    THEN IF ParseU64Wide(DropLast(s, 2)).ok
         THEN {FromMillis(ParseU64Wide(DropLast(s, 2)).val)} ELSE {DurationErr}
  ELSE IF EndsWith(s, <<"s">>) THEN SecsArm(s, 1, 1)
  ELSE IF EndsWith(s, <<"m">>) THEN SecsArm(s, 1, 60)
  ELSE IF EndsWith(s, <<"h">>) THEN SecsArm(s, 1, 3600)
  ELSE SecsArm(s, 0, 1)

\* parse_duration_string: every outcome it can have
ParseDurationString(s) == ParseTrimmed(Trim(s))

\* nothing has been parsed
DurIdle == parsed = <<>>

\* run_benchmark has not been entered
CfgIdle ==
  /\ rb = [at |-> "none", i |-> 0, duration |-> 0, timeout |-> 0]
  /\ args = <<>>

\* no curl command has been parsed
CurlIdle == curl = <<>>

\* ------------------------------------------------------------------ curl commands (curl_parser.rs)

LowerChars == <<"a", "b", "c", "d", "e", "f", "g", "h", "i", "j", "k", "l", "m", "n", "o", "p", "q", "r", "s", "t", "u", "v", "w", "x", "y", "z">>
UpperChars == <<"A", "B", "C", "D", "E", "F", "G", "H", "I", "J", "K", "L", "M", "N", "O", "P", "Q", "R", "S", "T", "U", "V", "W", "X", "Y", "Z">>

\* char::to_uppercase, for the letters of the model
UpperChar(c) ==
  IF \E i \in 1..Len(LowerChars) : LowerChars[i] = c
  THEN UpperChars[CHOOSE i \in 1..Len(LowerChars) : LowerChars[i] = c]
  ELSE c

\* str::to_uppercase
ToUppercase(s) == [i \in 1..Len(s) |-> UpperChar(s[i])]

\* the state of tokenize_curl_command before the first character
TokenizerStart ==
  [tokens |-> <<>>, current |-> <<>>, in_quote |-> FALSE, quote_char |-> " ", escaped |-> FALSE]

\* one round of the loop of tokenize_curl_command, on character ch
TokenizeChar(z, ch) ==
  IF z.escaped THEN [z EXCEPT !.current = Append(@, ch), !.escaped = FALSE]
  ELSE IF ch = "\\" THEN [z EXCEPT !.escaped = TRUE]
  ELSE IF ch = "\"" \/ ch = "'"
    THEN IF ~z.in_quote THEN [z EXCEPT !.in_quote = TRUE, !.quote_char = ch]
         ELSE IF ch = z.quote_char THEN [z EXCEPT !.in_quote = FALSE]
         ELSE [z EXCEPT !.current = Append(@, ch)]
  ELSE IF IsSpace(ch) /\ ~z.in_quote
    THEN IF z.current # <<>>
         THEN [z EXCEPT !.tokens = Append(@, z.current), !.current = <<>>]
         ELSE z
  ELSE [z EXCEPT !.current = Append(@, ch)]

RECURSIVE TokenizeFrom(_, _)
\* the loop of tokenize_curl_command
TokenizeFrom(z, s) ==
  IF s = <<>> THEN z
  ELSE CHOOSE r \in {TokenizeFrom(n, Tail(s)) : n \in {TokenizeChar(z, Head(s))}} : TRUE

\* tokenize_curl_command
TokenizeCurlCommand(line) ==
  LET z == TokenizeFrom(TokenizerStart, line) IN
  IF z.current # <<>> THEN Append(z.tokens, z.current) ELSE z.tokens

\* parse_header: a header with no colon is dropped
ParseHeader(header, headers) ==
  IF FindChar(header, ":") = 0 THEN headers
  ELSE Insert(headers, Trim(SubSeq(header, 1, FindChar(header, ":") - 1)),
              Trim(SkipTo(header, FindChar(header, ":"))))

\* base64_encode, kept abstract: the text marked as encoded
Base64Encode(s) == <<"b", "a", "s", "e", "6", "4", ":">> \o s

\* the locals of parse_curl_command before the first token
CurlStart == [url |-> <<>>, method |-> <<"G", "E", "T">>, headers |-> <<>>, body |-> <<>>]

\* the data arms of parse_curl_command: the body is set, and a method that reads GET
\* becomes POST
DataArm(c, data) ==
  [c EXCEPT !.body = <<data>>,
            !.method = IF c.method = <<"G", "E", "T">> THEN <<"P", "O", "S", "T">> ELSE c.method]

\* the options of parse_curl_command that take the next token
TakesValue ==
  {<<"-", "X">>, <<"-", "-", "r", "e", "q", "u", "e", "s", "t">>, <<"-", "H">>, <<"-", "-", "h", "e", "a", "d", "e", "r">>, <<"-", "d">>, <<"-", "-", "d", "a", "t", "a">>, <<"-", "-", "d", "a", "t", "a", "-", "r", "a", "w">>,
   <<"-", "-", "d", "a", "t", "a", "-", "b", "i", "n", "a", "r", "y">>, <<"-", "-", "d", "a", "t", "a", "-", "u", "r", "l", "e", "n", "c", "o", "d", "e">>, <<"-", "u">>, <<"-", "-", "u", "s", "e", "r">>, <<"-", "A">>, <<"-", "-", "u", "s", "e", "r", "-", "a", "g", "e", "n", "t">>,
   <<"-", "e">>, <<"-", "-", "r", "e", "f", "e", "r", "e", "r">>}

DataOptions == {<<"-", "d">>, <<"-", "-", "d", "a", "t", "a">>, <<"-", "-", "d", "a", "t", "a", "-", "r", "a", "w">>, <<"-", "-", "d", "a", "t", "a", "-", "b", "i", "n", "a", "r", "y">>, <<"-", "-", "d", "a", "t", "a", "-", "u", "r", "l", "e", "n", "c", "o", "d", "e">>}

\* an arm of the match of parse_curl_command that found its value v
ValueArm(c, token, v) ==
  IF token \in {<<"-", "X">>, <<"-", "-", "r", "e", "q", "u", "e", "s", "t">>} THEN [c EXCEPT !.method = ToUppercase(v)]
  ELSE IF token \in {<<"-", "H">>, <<"-", "-", "h", "e", "a", "d", "e", "r">>} THEN [c EXCEPT !.headers = ParseHeader(v, @)]
  ELSE IF token \in DataOptions THEN DataArm(c, v)
  ELSE IF token \in {<<"-", "u">>, <<"-", "-", "u", "s", "e", "r">>}
    THEN [c EXCEPT !.headers = Insert(@, <<"A", "u", "t", "h", "o", "r", "i", "z", "a", "t", "i", "o", "n">>, <<"B", "a", "s", "i", "c", " ">> \o Base64Encode(v))]
  ELSE IF token \in {<<"-", "A">>, <<"-", "-", "u", "s", "e", "r", "-", "a", "g", "e", "n", "t">>}
    THEN [c EXCEPT !.headers = Insert(@, <<"U", "s", "e", "r", "-", "A", "g", "e", "n", "t">>, v)]
  ELSE [c EXCEPT !.headers = Insert(@, <<"R", "e", "f", "e", "r", "e", "r">>, v)]

\* an arm of the match of parse_curl_command that takes no value
PlainArm(c, token) ==
  IF token = <<"-", "-", "c", "o", "m", "p", "r", "e", "s", "s", "e", "d">>
    THEN [c EXCEPT !.headers = Insert(@, <<"A", "c", "c", "e", "p", "t", "-", "E", "n", "c", "o", "d", "i", "n", "g">>, <<"g", "z", "i", "p", ",", " ", "d", "e", "f", "l", "a", "t", "e">>)]
  ELSE IF token[1] # "-" /\ c.url = <<>> THEN [c EXCEPT !.url = token]
  ELSE c

RECURSIVE ParseTokens(_, _, _)
\* the while loop of parse_curl_command, from token i
ParseTokens(c, tokens, i) ==
  IF i > Len(tokens) THEN c
  ELSE IF tokens[i] \in TakesValue
    THEN IF i + 1 <= Len(tokens)
         THEN CHOOSE r \in {ParseTokens(n, tokens, i + 2) :
                              n \in {ValueArm(c, tokens[i], tokens[i + 1])}} : TRUE
         ELSE c
  ELSE CHOOSE r \in {ParseTokens(n, tokens, i + 1) : n \in {PlainArm(c, tokens[i])}} : TRUE

\* the command line without its leading curl
WithoutCurl(line) ==
  IF StartsWith(line, <<"c", "u", "r", "l", " ">>) THEN SkipTo(line, 5)
  ELSE IF StartsWith(line, <<"c", "u", "r", "l">>) THEN SkipTo(line, 4)
  ELSE line

\* parse_curl_command
ParseCurlCommand(line) ==
  CHOOSE r \in {IF c.url = <<>> THEN [ok |-> FALSE, val |-> CurlStart]
                ELSE [ok |-> TRUE, val |-> c] :
                  c \in {ParseTokens(CurlStart, tokens, 1) :
                           tokens \in {TokenizeCurlCommand(WithoutCurl(Trim(line)))}}} : TRUE

\* nothing of the pure functions has been called
\* no ClientState has held a sender
PeerIdle == peer = [c \in DOMAIN client_state |-> "none"]

PureIdle == TplIdle /\ DurIdle /\ CfgIdle /\ CurlIdle /\ PeerIdle

\* ------------------------------------------------------------------ sizing (engine.rs)

\* actual_threads of run_workers
ActualThreads(t) ==
  IF t = 0 THEN NumPhysicalCpus ELSE Min(t, NumPhysicalCpus * 2)

\* the quotient is rounded up
ConnectionsPerThreadCeil(c, t) ==
  Max((c + ActualThreads(t) - 1) \div ActualThreads(t), 1)

\* connections_per_thread of run_workers
ConnectionsPerThread(c, t) == Max(c \div ActualThreads(t), 1)

\* the thread count is not clamped
ActualThreadsUnclamped(t) == IF t = 0 THEN NumPhysicalCpus ELSE t

\* actual_threads of run_workers_with_ui_updates
ActualThreadsUi(t) ==
  IF t = 0 THEN NumPhysicalCpus ELSE Min(t, NumPhysicalCpus * 2)

\* connections_per_thread of run_workers_with_ui_updates
ConnectionsPerThreadUi(c, t) == Max(c \div ActualThreadsUi(t), 1)

\* pool_size of both run paths
PoolSize(n) == Min(n, 20)

\* ConnectionPool::new: pool_size clients, the counter at zero
NewPool(n) == [clients |-> [i \in 1..n |-> i - 1], next_index |-> 0]

\* every call returns the first client
ClientAtFirst(p, index) == p.clients[1]

\* self.clients[index % self.clients.len()]
ClientAt(p, index) == p.clients[(index % Len(p.clients)) + 1]

Threads == 1..actual_threads
Tasks == 1..(actual_threads * connections_per_thread)

\* the worker thread whose LocalSet hosts task t
ThreadOf(t) == ((t - 1) \div connections_per_thread) + 1

\* one ClientState for all tasks
StateOfShared(t) == 1

\* the ClientState task t passes to request: its own, created in the task body
StateOf(t) == t

ClientStates == {StateOf(t) : t \in Tasks}

\* ------------------------------------------------------------------ timers

\* the stats updater sends a snapshot when this long has passed since the last
\* one, milliseconds
UpdateIntervalMs == 500

\* mpsc::channel(100): the capacity of the snapshot channel
SnapshotCapacity == 100

\* receive timeout of the live-UI collector, milliseconds
RecvTimeoutMs == 100

\* the timer is armed for any non-zero timeout
TimerArmedNonZero == timeout > 0

\* the guard of the timeout race in HttpClient::request
TimerArmed == AsSecs(timeout) > 0

\* ticks after which elapsed stops counting
ElapsedCap == Ticks(timeout) + 1

\* the rate-limit delay computed in whole seconds
DelayWholeSecs == IF rate > 0 THEN (1 \div rate) * 1000 ELSE 0

\* the rate-limit delay, 1/rate seconds, in milliseconds
DelayMs == IF rate > 0 THEN 1000 \div rate ELSE 0

\* the deadline test admits the deadline instant itself
BeforeDeadlineInclusive(n) == n <= end_time

\* a loop condition that also ends the task when the live UI was stopped
BeforeDeadlineOrStopped(n) == n < end_time /\ ~should_stop

\* the loop condition of the task body
BeforeDeadline(n) == n < end_time

InRequest(t) == pc[t] \in {"connect", "ready", "send"}

\* ------------------------------------------------------------------ channel (kanal)

\* worker threads whose closure has returned: rt.block_on(local) returns when every
\* task of the thread is done
Exited == {th \in Threads : \A t \in Tasks : ThreadOf(t) = th => pc[t] = "done"}

\* number of live senders once the driver has dropped its own: one per worker
\* thread closure (the clones held by its tasks are dropped before it returns)
SendCount == Cardinality(Threads \ Exited)

\* the receive loop ends as soon as the queue is empty
RecvClosedIgnoringSenders == q = <<>>

\* rx.recv() returns Err: nothing buffered and every sender dropped
RecvClosed == q = <<>> /\ SendCount = 0


\* ------------------------------------------------------------------ worker task (engine.rs)

\* the authority (host and port) of the URL of each template, in file order: the
\* templates of a file may address different servers
Authorities == <<"h1:80", "h2:80", "h1:80">>

\* uri.authority of the URL of the template at index i
Authority(i) == Authorities[i + 1]

\* every template has the first template's URL
UrlFirst(i) == Urls[1]

\* cmd.url of the template at index i
Url(i) == Urls[i + 1]

\* every task takes the first template
SelectFirst(t) == {0}

\* the template indices the load strategy may select for task t's next request
Select(t) ==
  IF load_strategy = RoundRobin THEN {request_count[t] % commands} ELSE 0..(commands - 1)

\* the URL as sent, after template processing
SentUrls == <<"/a?id=1", "/b", "/c">>

\* the tag is the URL after substitution
EndpointSubstituted(t) == IF commands > 1 THEN {SentUrls[cmd[t] + 1]} ELSE {}

\* requests of the first template carry no tag
EndpointOnlyLater(t) == IF commands > 1 /\ cmd[t] > 0 THEN {Url(cmd[t])} ELSE {}

\* the endpoint of the RequestResult: the template's URL when there are several
Endpoint(t) == IF commands > 1 THEN {Url(cmd[t])} ELSE {}

\* the RequestResult composed from the result of request: status_code, bytes_read,
\* error and endpoint; its duration is elapsed[t] at this step and is not carried
\* along; task and seq identify the outcome
\* an outcome that never carries the response status
OutcomeNoStatus(t, status, bytes, err) ==
  [status_code |-> {}, bytes_read |-> bytes, error |-> err, endpoint |-> Endpoint(t),
   task |-> t, seq |-> request_count[t]]

\* a response with a server-error status is composed as a failure as well
OutcomeFailsServerErrors(t, status, bytes, err) ==
  [status_code |-> status, bytes_read |-> bytes,
   error |-> IF status = {500} THEN {ErrSend} ELSE err, endpoint |-> Endpoint(t),
   task |-> t, seq |-> request_count[t]]

\* the RequestResult a worker composes from what request returned
Outcome(t, status, bytes, err) ==
  [status_code |-> status, bytes_read |-> bytes, error |-> err, endpoint |-> Endpoint(t),
   task |-> t, seq |-> request_count[t]]

\* a channel that hands out the latest outcome first
PublishFront(o) ==
  /\ q' = IF cpc = "done" THEN q ELSE <<o>> \o q
  /\ late_published' = (late_published \/ ~(now < end_time))

\* tx.send(request_result): queued, or dropped with the receiver gone
Publish(o) ==
  /\ q' = IF cpc = "done" THEN q ELSE Append(q, o)
  /\ late_published' = (late_published \/ ~(now < end_time))

\* the task ends at the first failed request
AfterErrorStop(t) == "done"

\* the task goes on after a failed request: the result of request is matched into
\* the outcome, whatever it is, and the loop body runs on
AfterError(t) == IF rate > 0 THEN "sleep" ELSE "check"

\* request has returned: compose the outcome, publish it, count it, pace
Complete(t, status, bytes, err) ==
  /\ Publish(Outcome(t, status, bytes, err))
  /\ request_count' = [request_count EXCEPT ![t] = @ + 1]
  /\ pc' = [pc EXCEPT ![t] = IF err # {} THEN AfterError(t)
                             ELSE IF rate > 0 THEN "sleep" ELSE "check"]
  /\ slept' = [slept EXCEPT ![t] = 0]
  /\ elapsed' = [elapsed EXCEPT ![t] = 0]
  /\ send_request' = [send_request EXCEPT ![t] = "None"]
  /\ inflight' = [inflight EXCEPT ![StateOf(t)] = @ - 1]
  /\ clean' = [clean EXCEPT ![t] = @ /\ err = {}]

\* requests issued so far by all tasks, counting those in progress
Issued == Cardinality({t \in Tasks : pc[t] \in {"start", "connect", "ready", "send"}})
          + SumOver(request_count, Tasks)

\* the requests all tasks together issue before the deadline are capped
ReqCap == IF commands > 1 \/ rate > 0 THEN MaxSelect ELSE MaxReq

\* while Instant::now() < end_time; then the template is selected
TaskCheck(t) ==
  /\ pc[t] = "check"
  /\ Issued < ReqCap \/ ~BeforeDeadline(now)
  /\ pc' = [pc EXCEPT ![t] = IF BeforeDeadline(now) THEN "start" ELSE "done"]
  /\ IF BeforeDeadline(now)
     THEN \E idx \in Select(t) :
            /\ cmd' = [cmd EXCEPT ![t] = idx]
            /\ picked' = [picked EXCEPT ![t] = Append(@, idx)]
     ELSE UNCHANGED <<cmd, picked>>
  /\ UNCHANGED <<sideVars, config, poolVars, since_start, now, request_count, elapsed, slept, send_request, connVars, chanVars,
                 collVars, mainVars>>

\* select and substitute the template, take the start timestamp, enter request:
\* the URL does not parse or the request does not build (request returns at once),
\* or the held sender is taken, or a connection attempt begins
TaskStart(t) ==
  /\ pc[t] = "start"
  /\ inflight' = [inflight EXCEPT ![StateOf(t)] = @ + 1]
  /\ \/ /\ client_state[StateOf(t)] # "None"
        /\ send_request' = [send_request EXCEPT ![t] = client_state[StateOf(t)]]
        /\ client_state' = [client_state EXCEPT ![StateOf(t)] = "None"]
        /\ pc' = [pc EXCEPT ![t] = "ready"]
     \/ /\ client_state[StateOf(t)] = "None"
        /\ pc' = [pc EXCEPT ![t] = "connect"]
        /\ UNCHANGED <<send_request, client_state>>
  /\ since_start' = [since_start EXCEPT ![t] = 0]
  /\ UNCHANGED <<sideVars, config, poolVars, cmd, picked, now, request_count, elapsed, slept, established, clean, chanVars,
                 collVars, mainVars>>

\* ------------------------------------------------------------------ request (http_client.rs)

\* the URL does not parse, or the request does not build: request returns the error
\* before it touches the ClientState
RequestInvalid(t) ==
  /\ pc[t] = "start"
  /\ \E err \in {ErrInvalidUrl, ErrBuild} :
       /\ Publish(Outcome(t, {}, 0, {err}))
       /\ pc' = [pc EXCEPT ![t] = AfterError(t)]
  /\ request_count' = [request_count EXCEPT ![t] = @ + 1]
  /\ slept' = [slept EXCEPT ![t] = 0]
  /\ clean' = [clean EXCEPT ![t] = FALSE]
  /\ since_start' = [since_start EXCEPT ![t] = 0]
  /\ UNCHANGED <<sideVars, config, poolVars, cmd, picked, now, elapsed, send_request, client_state, inflight, established,
                 collVars, mainVars>>

\* establish_connection(&uri) returns a sender: the connector has connected to the
\* host and port of the URL of this request
ConnectOk(t) ==
  /\ pc[t] = "connect"
  /\ send_request' = [send_request EXCEPT ![t] = "Some"]
  /\ established' = [established EXCEPT ![t] = @ + 1]
  /\ pc' = [pc EXCEPT ![t] = "ready"]
  /\ peer' = [peer EXCEPT ![StateOf(t)] = Authority(cmd[t])]
  /\ UNCHANGED <<histVars, liveVars, tplVars, durVars, cfgVars, curlVars, config, poolVars, selVars, now,
                 request_count, elapsed, slept, client_state, inflight, clean, chanVars, collVars, mainVars>>

\* establish_connection fails (connect or handshake): request returns the error
ConnectFail(t) ==
  /\ pc[t] = "connect"
  /\ \E err \in {ErrConnect, ErrHandshake} : Complete(t, {}, 0, {err})
  /\ UNCHANGED <<sideVars, config, poolVars, selVars, now, client_state, established, collVars, mainVars>>

\* send_request.ready() is Ok: the loop ends
ReadyOk(t) ==
  /\ pc[t] = "ready"
  /\ pc' = [pc EXCEPT ![t] = "send"]
  /\ UNCHANGED <<sideVars, config, poolVars, selVars, now, request_count, elapsed, slept, send_request, connVars, chanVars,
                 collVars, mainVars>>

\* the request fails when the sender is not ready
NotReadyFails(t) == "failed"

\* what request does when the sender is not ready: connect again
NotReady(t) == "connect"

\* send_request.ready() is Err (the peer has closed the connection, or reset it): the
\* sender is replaced by a new connection attempt
ReadyErr(t) ==
  /\ pc[t] = "ready"
  /\ established[t] < MaxConn
  /\ IF NotReady(t) = "connect"
     THEN /\ pc' = [pc EXCEPT ![t] = "connect"]
          /\ send_request' = [send_request EXCEPT ![t] = "None"]
          /\ clean' = [clean EXCEPT ![t] = FALSE]
          /\ UNCHANGED <<request_count, elapsed, slept, inflight, chanVars>>
     ELSE Complete(t, {}, 0, {ErrSend})
  /\ UNCHANGED <<sideVars, config, poolVars, selVars, now, client_state, established, collVars, mainVars>>

\* the ClientState is emptied when send_request fails
AfterSendErrEmpty(sr) == "None"

\* the sender stored back into the ClientState when send_request fails
AfterSendErr(sr) == sr

\* the sender is dropped after a successful request
AfterSendOkEmpty(sr) == "None"

\* the sender stored back into the ClientState after a successful request
AfterSendOk(sr) == sr

\* send_request returns a response and the body is drained: the sender is kept
SendOk(t) ==
  /\ pc[t] = "send"
  /\ client_state' = [client_state EXCEPT ![StateOf(t)] = AfterSendOk(send_request[t])]
  /\ \E status \in StatusSet, bytes \in BodySizes : Complete(t, {status}, bytes, {})
  /\ UNCHANGED <<sideVars, config, poolVars, selVars, now, established, collVars, mainVars>>

\* send_request returns an error: the sender is kept, the error returned
SendErr(t) ==
  /\ pc[t] = "send"
  /\ client_state' = [client_state EXCEPT ![StateOf(t)] = AfterSendErr(send_request[t])]
  /\ Complete(t, {}, 0, {ErrSend})
  /\ UNCHANGED <<sideVars, config, poolVars, selVars, now, established, collVars, mainVars>>

\* the timer wins and the sender in use goes back into the ClientState
RequestTimeoutKeepsSender(t) ==
  /\ InRequest(t)
  /\ TimerArmed
  /\ elapsed[t] >= Ticks(timeout)
  /\ client_state' = [client_state EXCEPT ![StateOf(t)] = send_request[t]]
  /\ Complete(t, {}, 0, {ErrTimeout})
  /\ UNCHANGED <<sideVars, config, poolVars, selVars, now, established, collVars, mainVars>>

\* the timer of the select! wins: the request future, and the sender it holds, are dropped
RequestTimeout(t) ==
  /\ InRequest(t)
  /\ TimerArmed
  /\ elapsed[t] >= Ticks(timeout)
  /\ Complete(t, {}, 0, {ErrTimeout})
  /\ UNCHANGED <<sideVars, config, poolVars, selVars, now, client_state, established, collVars, mainVars>>

\* tokio::time::sleep(delay) of the rate limiter has completed
TaskWake(t) ==
  /\ pc[t] = "sleep"
  /\ slept[t] >= Ticks(DelayMs)
  /\ pc' = [pc EXCEPT ![t] = "check"]
  /\ slept' = [slept EXCEPT ![t] = 0]
  /\ UNCHANGED <<sideVars, config, poolVars, selVars, now, request_count, elapsed, send_request, connVars, chanVars,
                 collVars, mainVars>>

\* ------------------------------------------------------------------ collector (engine.rs)

\* stats.record(result) on the outcome at the head of the queue
Fold ==
  /\ stats' = Record(stats, Head(q))
  /\ log' = Append(log, <<Head(q).task, Head(q).seq>>)
  /\ q' = Tail(q)

\* headless: while let Ok(result) = rx.recv() { stats.record(result) }
CollectorRecv ==
  /\ cpc = "recv"
  /\ ~live_ui
  /\ q # <<>>
  /\ Fold
  /\ UNCHANGED <<sideVars, config, poolVars, selVars, now, taskVars, connVars, late_published, cpc, waited, shared,
                 last, mainVars>>

\* headless: rx.recv() is Err, the loop ends; stats.finish()
CollectorFinish ==
  /\ cpc = "recv"
  /\ ~live_ui
  /\ RecvClosed
  /\ stats' = Finish(stats, now)
  /\ cpc' = "done"
  /\ UNCHANGED <<sideVars, config, poolVars, selVars, now, taskVars, connVars, chanVars, waited, shared, log, last,
                 mainVars>>

\* live UI: rx.recv_timeout is Ok: record into stats and into the shared copy
UiRecvOk ==
  /\ cpc = "recv"
  /\ live_ui
  /\ q # <<>>
  /\ Fold
  /\ shared' = Record(shared, Head(q))
  /\ waited' = 0
  /\ UNCHANGED <<sideVars, config, poolVars, selVars, now, taskVars, connVars, late_published, cpc, last, mainVars>>

\* the live-UI collector leaves its loop only when the channel is disconnected
UiLoopEndsDisconnectedOnly == SendCount = 0

\* the live-UI collector leaves its loop when a receive fails past the deadline, or
\* when the channel is disconnected
UiLoopEnds == now >= end_time \/ SendCount = 0

\* live UI: rx.recv_timeout is Err (timed out, or disconnected): go on to drain and
\* break, or receive again
UiRecvErr ==
  /\ cpc = "recv"
  /\ live_ui
  /\ q = <<>>
  /\ waited >= Ticks(RecvTimeoutMs) \/ SendCount = 0
  /\ cpc' = IF UiLoopEnds THEN "drain" ELSE "recv"
  /\ waited' = 0
  /\ UNCHANGED <<sideVars, config, poolVars, selVars, now, taskVars, connVars, chanVars, stats, shared, log, last,
                 mainVars>>

\* live UI: while let Ok(Some(result)) = rx.try_recv()
UiDrain ==
  /\ cpc = "drain"
  /\ q # <<>>
  /\ Fold
  /\ shared' = Record(shared, Head(q))
  /\ UNCHANGED <<sideVars, config, poolVars, selVars, now, taskVars, connVars, late_published, cpc, waited, last,
                 mainVars>>

\* live UI: try_recv finds nothing: break; stats.finish(); shared.finish()
UiFinish ==
  /\ cpc = "drain"
  /\ q = <<>>
  /\ stats' = Finish(stats, now)
  /\ shared' = Finish(shared, now)
  /\ cpc' = "done"
  /\ UNCHANGED <<sideVars, config, poolVars, selVars, now, taskVars, connVars, chanVars, waited, log, last,
                 mainVars>>

\* ------------------------------------------------------------------ driver (engine.rs)

\* for handle in handles { handle.join() }: every worker thread has ended
MainJoin ==
  /\ mpc = "join"
  /\ Exited = Threads
  /\ mpc' = "join_collector"
  /\ UNCHANGED <<sideVars, config, poolVars, selVars, now, taskVars, connVars, chanVars, collVars>>

\* collector_handle.join(); Ok(final_stats)
MainJoinCollector ==
  /\ mpc = "join_collector"
  /\ cpc = "done"
  /\ mpc' = "returned"
  /\ UNCHANGED <<sideVars, config, poolVars, selVars, now, taskVars, connVars, chanVars, collVars>>

\* ------------------------------------------------------------------ time

\* one tick passes, unless a pending request timer has expired
Tick ==
  /\ \A t \in Tasks : InRequest(t) /\ TimerArmed => elapsed[t] < Ticks(timeout)
  /\ now' = Min(now + 1, end_time)
  /\ elapsed' = [t \in Tasks |-> IF InRequest(t) THEN Min(elapsed[t] + 1, ElapsedCap) ELSE elapsed[t]]
  /\ slept' = [t \in Tasks |-> IF pc[t] = "sleep" THEN Min(slept[t] + 1, Ticks(DelayMs)) ELSE slept[t]]
  /\ waited' = IF cpc = "recv" /\ live_ui THEN Min(waited + 1, Ticks(RecvTimeoutMs)) ELSE waited
  /\ since_start' = [t \in Tasks |-> IF pc[t] # "done" THEN Min(since_start[t] + 1, Ticks(DelayMs))
                                                       ELSE since_start[t]]
  /\ usince' = IF upc \in {"sleep", "lock", "held", "send"} THEN Min(usince + 1, Ticks(UpdateIntervalMs))
                                                               ELSE usince
  /\ UNCHANGED <<histVars, pureVars, uiVars, updVars, mutex, config, poolVars, cmd, picked, pc, request_count,
                 send_request, connVars, chanVars, cpc, stats, shared, log, last, mainVars>>

\* ------------------------------------------------------------------ specification

\* the sizes both run paths compute from the arguments
Sized ==
  /\ actual_threads = IF live_ui THEN ActualThreadsUi(threads) ELSE ActualThreads(threads)
  /\ connections_per_thread = IF live_ui THEN ConnectionsPerThreadUi(connections, threads)
                                         ELSE ConnectionsPerThread(connections, threads)

\* every task has been spawned: the threads took their clients from the pool one
\* after the other (every client has the same timeout: which one a task holds makes
\* no difference to its requests)
Started ==
  /\ Sized
  /\ pool = [NewPool(PoolSize(actual_threads)) EXCEPT !.next_index = Cardinality(Tasks)]
  /\ client = [t \in Tasks |-> {(t - 1) % PoolSize(actual_threads)}]
  /\ handed = [i \in 1..Cardinality(Tasks) |-> <<i - 1, (i - 1) % PoolSize(actual_threads)>>]

\* no task has run a step yet, nothing is queued, the collector and the driver are
\* waiting
Quiet ==
  /\ now = 0
  /\ request_count = [t \in Tasks |-> 0]
  /\ elapsed = [t \in Tasks |-> 0]
  /\ slept = [t \in Tasks |-> 0]
  /\ send_request = [t \in Tasks |-> "None"]
  /\ cmd = [t \in Tasks |-> 0]
  /\ picked = [t \in Tasks |-> <<>>]
  /\ since_start = [t \in Tasks |-> 0]
  /\ client_state = [c \in ClientStates |-> "None"]
  /\ inflight = [c \in ClientStates |-> 0]
  /\ established = [t \in Tasks |-> 0]
  /\ clean = [t \in Tasks |-> TRUE]
  /\ late_published = FALSE
  /\ q = <<>>
  /\ cpc = "recv"
  /\ waited = 0
  /\ stats = NewStatistics
  /\ shared = NewStatistics
  /\ log = <<>>
  /\ last = {}
  /\ mpc = "join"

\* every task is at its first deadline check
AtStart ==
  /\ pc = [t \in Tasks |-> "check"]
  /\ Quiet
  /\ HistInit
  /\ UiIdle
  /\ PureIdle

\* the run has been set up: end_time taken, worker threads and their tasks spawned,
\* the driver's sender dropped, the collector thread spawned
Init ==
  /\ \E r \in Runs :
       /\ threads = r.threads
       /\ connections = r.connections
       /\ live_ui = r.live_ui
       /\ timeout = r.timeout
       /\ rate = r.rate
       /\ end_time = Ticks(r.duration)
  /\ commands = 1
  /\ load_strategy = Random
  /\ Started
  /\ AtStart

Next ==
  \/ \E t \in Tasks : TaskCheck(t)
  \/ \E t \in Tasks : TaskStart(t)
  \/ \E t \in Tasks : RequestInvalid(t)
  \/ \E t \in Tasks : ConnectOk(t)
  \/ \E t \in Tasks : ConnectFail(t)
  \/ \E t \in Tasks : ReadyOk(t)
  \/ \E t \in Tasks : ReadyErr(t)
  \/ \E t \in Tasks : SendOk(t)
  \/ \E t \in Tasks : SendErr(t)
  \/ \E t \in Tasks : RequestTimeout(t)
  \/ \E t \in Tasks : TaskWake(t)
  \/ CollectorRecv
  \/ CollectorFinish
  \/ UiRecvOk
  \/ UiRecvErr
  \/ UiDrain
  \/ UiFinish
  \/ MainJoin
  \/ MainJoinCollector
  \/ Tick

Spec == Init /\ [][Next]_vars

\* the tasks of any run
TaskIds ==
  UNION {1..(ActualThreads(r.threads) * ConnectionsPerThread(r.connections, r.threads)) : r \in Runs}

\* the steps the program takes by itself: tasks, timers, collector and driver are
\* scheduled, and time passes; what the server does (a connection attempt resolving,
\* a response or a failure arriving) is not promised
Fairness ==
  /\ \A t \in TaskIds :
       /\ WF_vars(t \in Tasks /\ TaskCheck(t))
       /\ WF_vars(t \in Tasks /\ (TaskStart(t) \/ RequestInvalid(t)))
       /\ WF_vars(t \in Tasks /\ (ReadyOk(t) \/ ReadyErr(t)))
       /\ WF_vars(t \in Tasks /\ RequestTimeout(t))
       /\ WF_vars(t \in Tasks /\ TaskWake(t))
  /\ WF_vars(CollectorRecv \/ CollectorFinish)
  /\ WF_vars(UiRecvOk \/ UiRecvErr \/ UiDrain \/ UiFinish)
  /\ WF_vars(MainJoin \/ MainJoinCollector)
  /\ WF_vars(Tick)

FairSpec == Init /\ [][Next]_vars /\ Fairness

\* ------------------------------------------------------------------ the task loop, request as one step

\* the runs explored with several templates and with a rate: one second, one or two
\* tasks; three templates with one task, random selection with one unpaced task
LoopRuns ==
  {r \in [commands : {1, 2, 3}, load_strategy : {RoundRobin, Random}, rate : {0, 2},
          threads : ThreadsArgs, live_ui : LiveUiArgs] :
     /\ r.threads > 1 => ~r.live_ui /\ r.commands <= 2
     /\ r.commands = 1 => r.load_strategy = Random
     /\ (r.commands > 1 /\ r.load_strategy = Random) => r.threads = 1 /\ r.rate = 0 /\ r.commands = 2
     /\ r.rate > 0 => r.commands <= 2}

\* what a call of request returns
LoopResults ==
  {[status |-> {200}, bytes |-> 4, error |-> {}], [status |-> {}, bytes |-> 0, error |-> {ErrConnect}]}

InitLoop ==
  /\ \E r \in LoopRuns :
       /\ threads = r.threads
       /\ commands = r.commands
       /\ load_strategy = r.load_strategy
       /\ live_ui = r.live_ui
       /\ rate = r.rate
  /\ connections = 1
  /\ timeout = 1000
  /\ end_time = Ticks(1000)
  /\ Started
  /\ AtStart

\* the start timestamp is taken and client.request(...).await returns, with a
\* response or with an error; the outcome is published and counted
RequestDone(t) ==
  /\ pc[t] = "start"
  /\ \E res \in LoopResults :
       /\ Publish(Outcome(t, res.status, res.bytes, res.error))
       /\ pc' = [pc EXCEPT ![t] = IF res.error # {} THEN AfterError(t)
                                  ELSE IF rate > 0 THEN "sleep" ELSE "check"]
       /\ clean' = [clean EXCEPT ![t] = @ /\ res.error = {}]
  /\ request_count' = [request_count EXCEPT ![t] = @ + 1]
  /\ slept' = [slept EXCEPT ![t] = 0]
  /\ since_start' = [since_start EXCEPT ![t] = 0]
  /\ UNCHANGED <<sideVars, config, poolVars, cmd, picked, now, elapsed, send_request, client_state,
                 inflight, established, collVars, mainVars>>

NextLoop ==
  \/ \E t \in Tasks : TaskCheck(t)
  \/ \E t \in Tasks : RequestDone(t)
  \/ \E t \in Tasks : TaskWake(t)
  \/ CollectorRecv
  \/ CollectorFinish
  \/ UiRecvOk
  \/ UiRecvErr
  \/ UiDrain
  \/ UiFinish
  \/ MainJoin
  \/ MainJoinCollector
  \/ Tick

SpecLoop == InitLoop /\ [][NextLoop]_vars

\* ------------------------------------------------------------------ live UI: updater, UI task, mutex (engine.rs, ui.rs)

runVars == <<config, poolVars, selVars, now, taskVars, connVars>>

\* the live-UI run with its UI task and its stats updater: one worker task, the UI
\* running, the updater in its first sleep
InitUi ==
  /\ threads = 1
  /\ connections = 1
  /\ commands = 1
  /\ load_strategy = Random
  /\ live_ui = TRUE
  /\ rate = 0
  /\ timeout = 1000
  /\ end_time = Ticks(500)
  /\ Started
  /\ pc = [t \in Tasks |-> "check"]
  /\ Quiet
  /\ HistInit
  /\ PureIdle
  /\ ui = "run"
  /\ should_stop = FALSE
  /\ ui_chan = <<>>
  /\ upc = "sleep"
  /\ usince = 0
  /\ usnap = {}
  /\ uabort = FALSE
  /\ mutex = {}
  /\ snapshots_sent = 0

\* collector: rx.recv_timeout is Ok(result): stats.record(result.clone())
CollRecvOk ==
  /\ cpc = "recv"
  /\ q # <<>>
  /\ Fold
  /\ last' = {Head(q)}
  /\ waited' = 0
  /\ cpc' = "recv_lock"
  /\ UNCHANGED <<runVars, late_published, shared, mainVars, sideVars>>

\* collector: try_recv in a drain loop is Ok(Some(result)): stats.record(result.clone())
CollDrainOk ==
  /\ cpc = "drain"
  /\ q # <<>>
  /\ Fold
  /\ last' = {Head(q)}
  /\ cpc' = "drain_lock"
  /\ UNCHANGED <<runVars, late_published, waited, shared, mainVars, sideVars>>

\* collector: try_recv finds nothing: break, stats.finish()
CollDrainEmpty ==
  /\ cpc = "drain"
  /\ q = <<>>
  /\ stats' = Finish(stats, now)
  /\ cpc' = "finish_lock"
  /\ UNCHANGED <<runVars, chanVars, waited, shared, log, last, mainVars, sideVars>>

\* collector: shared_stats_clone.lock() returns the guard
CollLock ==
  /\ cpc \in {"recv_lock", "drain_lock", "finish_lock"}
  /\ mutex = {}
  /\ mutex' = {"collector"}
  /\ cpc' = CASE cpc = "recv_lock" -> "recv_held"
              [] cpc = "drain_lock" -> "drain_held"
              [] OTHER -> "finish_held"
  /\ UNCHANGED <<runVars, chanVars, waited, stats, shared, log, last, mainVars, histVars, pureVars, uiVars,
                 updVars, usince>>

\* the collector records into the shared copy and goes back to receiving with the
\* guard still alive
CollSharedRecordKeepsLock ==
  /\ cpc \in {"recv_held", "drain_held"}
  /\ shared' = Record(shared, CHOOSE r \in last : TRUE)
  /\ cpc' = IF cpc = "recv_held" THEN "recv" ELSE "drain"
  /\ UNCHANGED <<runVars, chanVars, waited, stats, log, last, mainVars, sideVars>>

\* collector: shared.record(result); the guard is dropped at the end of the block
CollSharedRecord ==
  /\ cpc \in {"recv_held", "drain_held"}
  /\ shared' = Record(shared, CHOOSE r \in last : TRUE)
  /\ mutex' = {}
  /\ cpc' = IF cpc = "recv_held" THEN "recv" ELSE "drain"
  /\ UNCHANGED <<runVars, chanVars, waited, stats, log, last, mainVars, histVars, pureVars, uiVars, updVars,
                 usince>>

\* collector: shared.finish(); the guard is dropped; the thread returns stats
CollSharedFinish ==
  /\ cpc = "finish_held"
  /\ shared' = Finish(shared, now)
  /\ mutex' = {}
  /\ cpc' = "done"
  /\ UNCHANGED <<runVars, chanVars, waited, stats, log, last, mainVars, histVars, pureVars, uiVars, updVars,
                 usince>>

\* the updater takes a snapshot after every sleep
UpdaterWakeEverySleep ==
  /\ upc = "sleep"
  /\ ~uabort
  /\ snapshots_sent < MaxSnapshots \/ ui = "ended"
  /\ upc' = "lock"
  /\ UNCHANGED <<runVars, chanVars, collVars, mainVars, histVars, pureVars, uiVars, usnap, uabort,
                 snapshots_sent, usince, mutex>>

\* updater: the sleep is over and update_interval has passed since last_update
UpdaterWake ==
  /\ upc = "sleep"
  /\ ~uabort
  /\ usince >= Ticks(UpdateIntervalMs)
  /\ snapshots_sent < MaxSnapshots \/ ui = "ended"
  /\ upc' = "lock"
  /\ UNCHANGED <<runVars, chanVars, collVars, mainVars, histVars, pureVars, uiVars, usnap, uabort,
                 snapshots_sent, usince, mutex>>

\* updater: shared_stats.lock() returns the guard
UpdaterLock ==
  /\ upc = "lock"
  /\ mutex = {}
  /\ mutex' = {"updater"}
  /\ upc' = "held"
  /\ UNCHANGED <<runVars, chanVars, collVars, mainVars, histVars, pureVars, uiVars, usnap, uabort,
                 snapshots_sent, usince>>

\* updater: StatisticsSnapshot::from_statistics(&*stats); the guard is dropped
UpdaterSnapshot ==
  /\ upc = "held"
  /\ usnap' = {FromStatistics(shared)}
  /\ mutex' = {}
  /\ upc' = "send"
  /\ UNCHANGED <<runVars, chanVars, collVars, mainVars, histVars, pureVars, uiVars, uabort, snapshots_sent,
                 usince>>

\* updater: ui_tx.send(snapshot).await is Ok: the channel has room; last_update is
\* taken anew
UpdaterSendOk ==
  /\ upc = "send"
  /\ ui = "run"
  /\ Len(ui_chan) < SnapshotCapacity
  /\ ui_chan' = ui_chan \o <<CHOOSE x \in usnap : TRUE>>
  /\ snapshots_sent' = snapshots_sent + 1
  /\ usince' = 0
  /\ upc' = "sleep"
  /\ UNCHANGED <<runVars, chanVars, collVars, mainVars, histVars, pureVars, ui, should_stop, usnap, uabort,
                 mutex>>

\* updater: ui_tx.send(snapshot).await is Err, the receiver is gone: break
UpdaterSendErr ==
  /\ upc = "send"
  /\ ui = "ended"
  /\ upc' = "done"
  /\ UNCHANGED <<runVars, chanVars, collVars, mainVars, histVars, pureVars, uiVars, usnap, uabort,
                 snapshots_sent, usince, mutex>>

\* updater: the aborted task is dropped where it is suspended: in its sleep, or in
\* a send waiting for room
UpdaterCancelled ==
  /\ uabort
  /\ \/ upc = "sleep"
     \/ upc = "send" /\ ui = "run" /\ Len(ui_chan) >= SnapshotCapacity
  /\ upc' = "done"
  /\ UNCHANGED <<runVars, chanVars, collVars, mainVars, histVars, pureVars, uiVars, usnap, uabort,
                 snapshots_sent, usince, mutex>>

\* LiveUI::run: while let Ok(new_snapshot) = self.stats_rx.try_recv()
UiTryRecv ==
  /\ ui = "run"
  /\ ui_chan # <<>>
  /\ ui_chan' = <<>>
  /\ UNCHANGED <<runVars, chanVars, collVars, mainVars, histVars, pureVars, ui, should_stop, updVars, usince,
                 mutex>>

\* LiveUI::run: q, Q or Esc is pressed: should_stop, break; run returns and the UI
\* task drops the receiver
UiKey ==
  /\ ui = "run"
  /\ should_stop' = TRUE
  /\ ui' = "ended"
  /\ ui_chan' = <<>>
  /\ UNCHANGED <<runVars, chanVars, collVars, mainVars, histVars, pureVars, updVars, usince, mutex>>

\* LiveUI::run: start_time.elapsed() >= total_duration: break; the receiver is
\* dropped
UiElapsed ==
  /\ ui = "run"
  /\ now >= end_time
  /\ ui' = "ended"
  /\ ui_chan' = <<>>
  /\ UNCHANGED <<runVars, chanVars, collVars, mainVars, histVars, pureVars, should_stop, updVars, usince,
                 mutex>>

\* run_benchmark_with_ui: run_workers_with_ui_updates has returned;
\* stats_updater_handle.abort()
DriverAbort ==
  /\ mpc = "returned"
  /\ uabort' = TRUE
  /\ mpc' = "final"
  /\ UNCHANGED <<runVars, chanVars, collVars, histVars, pureVars, uiVars, upc, usnap, snapshots_sent, usince,
                 mutex>>

\* run_benchmark_with_ui: let _ = ui_tx.send(final_snapshot).await: delivered when
\* the channel has room, an error at once when the receiver is gone
DriverSendFinal ==
  /\ mpc = "final"
  /\ ui = "ended" \/ Len(ui_chan) < SnapshotCapacity
  /\ ui_chan' = IF ui = "run" THEN ui_chan \o <<FromStatistics(stats)>> ELSE ui_chan
  /\ mpc' = "sleep"
  /\ UNCHANGED <<runVars, chanVars, collVars, histVars, pureVars, ui, should_stop, updVars, usince, mutex>>

\* run_benchmark_with_ui: the 200 ms sleep is over
DriverSleep ==
  /\ mpc = "sleep"
  /\ mpc' = "await_ui"
  /\ UNCHANGED <<runVars, chanVars, collVars, sideVars>>

\* run_benchmark_with_ui: ui_handle.await returns; Ok(final_stats)
DriverAwaitUi ==
  /\ mpc = "await_ui"
  /\ ui = "ended"
  /\ mpc' = "finished"
  /\ UNCHANGED <<runVars, chanVars, collVars, sideVars>>

NextUi ==
  \/ \E t \in Tasks : TaskCheck(t)
  \/ \E t \in Tasks : RequestDone(t)
  \/ CollRecvOk
  \/ UiRecvErr
  \/ CollDrainOk
  \/ CollDrainEmpty
  \/ CollLock
  \/ CollSharedRecord
  \/ CollSharedFinish
  \/ MainJoin
  \/ MainJoinCollector
  \/ UpdaterWake
  \/ UpdaterLock
  \/ UpdaterSnapshot
  \/ UpdaterSendOk
  \/ UpdaterSendErr
  \/ UpdaterCancelled
  \/ UiTryRecv
  \/ UiKey
  \/ UiElapsed
  \/ DriverAbort
  \/ DriverSendFinal
  \/ DriverSleep
  \/ DriverAwaitUi
  \/ Tick

SpecUi == InitUi /\ [][NextUi]_vars

\* every thread and task that can run does run; the server answers or refuses
\* every request; the user may never press a key
FairnessUi ==
  /\ \A t \in TaskIds : WF_vars(t \in Tasks /\ (TaskCheck(t) \/ RequestDone(t)))
  /\ WF_vars(CollRecvOk \/ UiRecvErr \/ CollDrainOk \/ CollDrainEmpty \/ CollLock
               \/ CollSharedRecord \/ CollSharedFinish)
  /\ WF_vars(UpdaterWake \/ UpdaterLock \/ UpdaterSnapshot \/ UpdaterSendOk \/ UpdaterSendErr
               \/ UpdaterCancelled)
  /\ WF_vars(UiTryRecv \/ UiElapsed)
  /\ WF_vars(MainJoin \/ MainJoinCollector \/ DriverAbort \/ DriverSendFinal \/ DriverSleep
               \/ DriverAwaitUi)
  /\ WF_vars(Tick)

FairSpecUi == SpecUi /\ FairnessUi


\* ------------------------------------------------------------------ sizing and the pool's hand-out

\* --threads and --connections of the runs whose start-up is explored
SizingThreads == {0, 1, 2, 3}
SizingConnections == {0, 1, 2, 4, 5}

\* the sizes are computed and the pool is built; no task has been spawned yet
InitPool ==
  /\ threads \in SizingThreads
  /\ connections \in SizingConnections
  /\ live_ui \in LiveUiArgs
  /\ commands = 1
  /\ load_strategy = Random
  /\ timeout = 1000
  /\ rate = 0
  /\ end_time = Ticks(500)
  /\ Sized
  /\ pool = NewPool(PoolSize(actual_threads))
  /\ client = [t \in Tasks |-> {}]
  /\ handed = <<>>
  /\ pc = [t \in Tasks |-> "spawn"]
  /\ Quiet
  /\ HistInit
  /\ UiIdle
  /\ PureIdle

\* a worker thread takes a client for its next task, pool.get_client(), and spawns
\* the task; fetch_add reads and increments the counter in one step
GetClient(t) ==
  /\ pc[t] = "spawn"
  /\ \A u \in Tasks : (ThreadOf(u) = ThreadOf(t) /\ u < t) => pc[u] # "spawn"
  /\ LET index == pool.next_index
     IN /\ pool' = [pool EXCEPT !.next_index = @ + 1]
        /\ client' = [client EXCEPT ![t] = {ClientAt(pool, index)}]
        /\ handed' = Append(handed, <<index, ClientAt(pool, index)>>)
  /\ pc' = [pc EXCEPT ![t] = "check"]
  /\ UNCHANGED <<sideVars, config, selVars, now, request_count, elapsed, slept, send_request, connVars,
                 chanVars, collVars, mainVars>>

NextPool == \E t \in Tasks : GetClient(t)

SpecPool == InitPool /\ [][NextPool]_vars

\* ------------------------------------------------------------------ record calls on their own

\* the outcomes handed to Statistics::record: any mix of status, bytes, error and
\* endpoint
AnyOutcome ==
  [status_code : {{}} \cup {{c} : c \in StatusSet},
   bytes_read : {0} \cup BodySizes,
   error : {{}, {ErrConnect}, {ErrTimeout}},
   endpoint : {{}, {"/a"}, {"/b"}},
   task : {0}, seq : {0}]

\* a fresh Statistics, no run in progress
InitStats ==
  /\ threads = 0
  /\ connections = 0
  /\ commands = 0
  /\ load_strategy = Random
  /\ cmd = <<>>
  /\ picked = <<>>
  /\ since_start = <<>>
  /\ pool = NewPool(0)
  /\ client = <<>>
  /\ handed = <<>>
  /\ live_ui = FALSE
  /\ timeout = 0
  /\ rate = 0
  /\ end_time = 0
  /\ actual_threads = 0
  /\ connections_per_thread = 1
  /\ now = 0
  /\ pc = <<>>
  /\ request_count = <<>>
  /\ elapsed = <<>>
  /\ slept = <<>>
  /\ send_request = <<>>
  /\ client_state = <<>>
  /\ inflight = <<>>
  /\ established = <<>>
  /\ clean = <<>>
  /\ late_published = FALSE
  /\ q = <<>>
  /\ cpc = "idle"
  /\ waited = 0
  /\ stats = NewStatistics
  /\ shared = NewStatistics
  /\ log = <<>>
  /\ last = {}
  /\ mpc = "stats"
  /\ HistInit
  /\ UiIdle
  /\ PureIdle

\* stats.record(r) for an arbitrary outcome r
RecordAny ==
  /\ Len(log) < MaxRecords
  /\ \E r \in AnyOutcome :
       /\ stats' = Record(stats, r)
       /\ last' = {r}
  /\ log' = Append(log, <<0, Len(log)>>)
  /\ UNCHANGED <<sideVars, config, poolVars, selVars, now, taskVars, connVars, chanVars, cpc, waited, shared, mainVars>>

NextStats == RecordAny

SpecStats == InitStats /\ [][NextStats]_vars

\* ------------------------------------------------------------------ finish and the reads after it (stats.rs)

\* the outcomes recorded around finish: an answered request on an endpoint and a
\* failed one without endpoint
FinishOutcomes ==
  {[status_code |-> {200}, bytes_read |-> 4, error |-> {}, endpoint |-> {"/a"}, task |-> 0, seq |-> 0],
   [status_code |-> {}, bytes_read |-> 0, error |-> {ErrConnect}, endpoint |-> {}, task |-> 0, seq |-> 0]}

\* Statistics::duration at instant t, in ticks; start_time is instant 0
Duration(s, t) == IF s.end_time # {} THEN (CHOOSE e \in s.end_time : TRUE) ELSE t

\* Statistics::requests_per_sec at instant t, in thousandths
RequestsPerSec(s, t) ==
  IF Duration(s, t) > 0 THEN (s.total_requests * 1000 * TicksPerSec) \div Duration(s, t) ELSE 0

\* Statistics::bytes_per_sec at instant t, in thousandths
BytesPerSec(s, t) ==
  IF Duration(s, t) > 0 THEN (s.total_bytes * 1000 * TicksPerSec) \div Duration(s, t) ELSE 0

\* every read of a Statistics at instant t
Reads(s, t) ==
  [snapshot |-> FromStatistics(s), end_time |-> s.end_time, duration |-> Duration(s, t),
   requests_per_sec |-> RequestsPerSec(s, t), bytes_per_sec |-> BytesPerSec(s, t)]

\* a Statistics made at instant 0, a clock that runs on for a second and a half
InitFinish ==
  /\ threads = 0
  /\ connections = 0
  /\ commands = 0
  /\ load_strategy = Random
  /\ live_ui = FALSE
  /\ timeout = 0
  /\ rate = 0
  /\ end_time = Ticks(1500)
  /\ actual_threads = 0
  /\ connections_per_thread = 1
  /\ pool = NewPool(0)
  /\ client = <<>>
  /\ handed = <<>>
  /\ now = 0
  /\ pc = <<>>
  /\ request_count = <<>>
  /\ elapsed = <<>>
  /\ slept = <<>>
  /\ send_request = <<>>
  /\ cmd = <<>>
  /\ picked = <<>>
  /\ since_start = <<>>
  /\ client_state = <<>>
  /\ inflight = <<>>
  /\ established = <<>>
  /\ clean = <<>>
  /\ late_published = FALSE
  /\ q = <<>>
  /\ cpc = "idle"
  /\ waited = 0
  /\ stats = NewStatistics
  /\ shared = NewStatistics
  /\ log = <<>>
  /\ last = {}
  /\ mpc = "stats"
  /\ HistInit
  /\ UiIdle
  /\ PureIdle

\* stats.record(r)
RecordSome ==
  /\ Len(log) < MaxRecords
  /\ \E r \in FinishOutcomes :
       /\ stats' = Record(stats, r)
       /\ last' = {r}
  /\ log' = Append(log, <<0, Len(log)>>)
  /\ UNCHANGED <<sideVars, config, poolVars, selVars, now, taskVars, connVars, chanVars, cpc, waited, shared, mainVars>>

\* stats.finish(), by any caller at any instant
FinishAny ==
  /\ stats' = Finish(stats, now)
  /\ UNCHANGED <<sideVars, config, poolVars, selVars, now, taskVars, connVars, chanVars, cpc, waited, shared, log,
                 last, mainVars>>

NextFinish == RecordSome \/ FinishAny \/ Tick

SpecFinish == InitFinish /\ [][NextFinish]_vars

\* ------------------------------------------------------------------ latencies (stats.rs)

\* result.duration.as_micros() of the outcomes recorded: zero, values with a bucket
\* each, and values that share a bucket of width 2, 4 and 8
DurationsMicros == {0, 3, 2049, 4102, 8199}

\* answered requests of every duration, untagged or tagged with an endpoint
TimedOutcomes ==
  [status_code : {{200}}, bytes_read : {4}, error : {{}}, endpoint : {{}, {"/a"}, {"/b"}},
   task : {0}, seq : {0}, duration : DurationsMicros]

\* a fresh Statistics with its empty histograms
InitHist == InitStats

\* stats.record(r): the counters and maps, one sample in the global histogram and,
\* for a tagged outcome, one in its endpoint's
RecordTimed ==
  /\ Len(log) < MaxRecords
  /\ \E r \in TimedOutcomes :
       /\ stats' = Record(stats, r)
       /\ last' = {r}
       /\ hist' = HistRecord(hist, r.duration)
       /\ ephist' = IF r.endpoint = {} THEN ephist
                    ELSE LET u == CHOOSE e \in r.endpoint : TRUE
                             old == IF u \in DOMAIN ephist THEN ephist[u] ELSE NewHistogram
                         IN [x \in DOMAIN ephist \cup {u} |->
                               IF x = u THEN HistRecord(old, r.duration) ELSE ephist[x]]
  /\ log' = Append(log, <<0, Len(log)>>)
  /\ UNCHANGED <<pureVars, liveVars, config, poolVars, selVars, now, taskVars, connVars, chanVars, cpc, waited,
                 shared, mainVars>>

NextHist == RecordTimed

SpecHist == InitHist /\ [][NextHist]_vars

\* ------------------------------------------------------------------ claims

\* the number of requests issued by all tasks
TotalIssued == SumOver(request_count, Tasks)

\* the positions of log holding the outcome <<t, k>>
Folds(t, k) == {i \in 1..Len(log) : log[i] = <<t, k>>}

\* C1: headless path: once run_workers has returned, every outcome a task published
\* has been folded into the returned Statistics exactly once, total_requests is the
\* number of requests issued by all tasks, and the collector has left its loop with
\* the queue empty and every sender dropped.
C1_HeadlessFoldsEveryOutcome ==
  (~live_ui /\ cpc = "done") =>
    /\ q = <<>>
    /\ SendCount = 0
    /\ stats.total_requests = TotalIssued
    /\ Len(log) = TotalIssued
    /\ \A t \in Tasks : \A k \in 0..(MaxReq - 1) :
         k < request_count[t] => Cardinality(Folds(t, k)) = 1

\* C1 witness: a headless run of two tasks has returned; both issued requests and an
\* outcome published at or after the deadline is among those folded.
C1_Witness ==
  /\ ~live_ui
  /\ mpc = "returned"
  /\ actual_threads = 2
  /\ \A t \in Tasks : request_count[t] >= 1
  /\ late_published
  /\ stats.total_requests = 2

\* C2: live-UI path: once run_workers_with_ui_updates has returned, every outcome a
\* task published is recorded in the returned Statistics.
C2_UiFoldsEveryOutcome ==
  (live_ui /\ mpc = "returned") => stats.total_requests = TotalIssued

\* C3: for a configured timeout t > 0 no request call is still running more than t
\* after it began.
C3_TimeoutBoundsRequest ==
  \A t \in Tasks :
    (timeout > 0 /\ InRequest(t)) => elapsed[t] * 1000 <= timeout * TicksPerSec

\* C4 (state part): total = successful + failed = number of record calls
C4_Counts ==
  /\ stats.total_requests = stats.successful_requests + stats.failed_requests
  /\ stats.total_requests = Len(log)

\* C4 (step part): a record call increments total and exactly one of successful and
\* failed: failed iff the outcome carries an error
C4_Step ==
  stats' # stats =>
    \E r \in last' :
      /\ stats'.total_requests = stats.total_requests + 1
      /\ IF r.error # {}
         THEN /\ stats'.failed_requests = stats.failed_requests + 1
              /\ stats'.successful_requests = stats.successful_requests
         ELSE /\ stats'.failed_requests = stats.failed_requests
              /\ stats'.successful_requests = stats.successful_requests + 1

\* C4: after any sequence of record calls, of any mix of outcomes,
\* total_requests = successful_requests + failed_requests = the number of calls, and
\* each call increments exactly one of the two, failed iff the outcome has an error.
C4_RecordCounts == []C4_Counts /\ [][C4_Step]_vars

\* C4 witness: three calls, successes and failures among them, the latest an outcome
\* carrying both a status and an error.
C4_Witness ==
  /\ mpc = "stats"
  /\ stats.total_requests = 3
  /\ stats.successful_requests >= 1
  /\ stats.failed_requests >= 1
  /\ \E r \in last : r.error # {} /\ r.status_code # {}


\* C5: once the deadline has passed the run returns: every task leaves its loop, the
\* threads are joined, the collector ends, whatever the server does.
C5_RunTerminates == <>(mpc = "returned")

\* the outcome a step has appended to the queue
Appended == q'[Len(q')]

\* task t's call of request returns in this step
Returns(t) == request_count'[t] # request_count[t]

\* C6 (as stated): every request starts at a time strictly earlier than end_time.
C6_StartBeforeDeadline ==
  [][\A t \in Tasks : (pc[t] = "start" /\ pc'[t] # "start") => now < end_time]_vars

\* C6 (amended): every request is preceded by a deadline check that read a time
\* strictly earlier than end_time, a check at or after end_time ends the task, and a
\* task that has ended issues no request and publishes no outcome.
C6_CheckBeforeDeadline ==
  [][\A t \in Tasks :
       /\ (pc[t] = "check" /\ pc'[t] = "start") => now < end_time
       /\ (pc[t] = "check" /\ now >= end_time /\ pc'[t] # "check") => pc'[t] = "done"
       /\ pc'[t] = "start" => pc[t] \in {"check", "start"}
       /\ pc[t] = "done" =>
            /\ pc'[t] = "done"
            /\ request_count'[t] = request_count[t]
            /\ (Len(q') > Len(q) => Appended.task # t)]_vars

\* C6 witness: a task has issued requests and has ended at a check made at the
\* deadline, while another outcome was published at or after the deadline.
C6_Witness ==
  \E t \in Tasks :
    /\ pc[t] = "done"
    /\ request_count[t] >= 1
    /\ now >= end_time
    /\ late_published

\* C7 (task side): a call of request that returns publishes exactly one outcome for
\* the attempt, with the error set and no status when it failed, and the task goes on
\* to its next iteration
C7_Step ==
  \A t \in Tasks :
    Returns(t) =>
      /\ request_count'[t] = request_count[t] + 1
      /\ pc'[t] \in {"check", "sleep"}
      /\ cpc # "done" =>
           /\ q' = Append(q, Appended)
           /\ Appended.task = t
           /\ Appended.seq = request_count[t]
           /\ (Appended.error = {}) # (Appended.status_code = {})

\* C7 (collector side): folding an outcome that carries an error adds one to
\* failed_requests and one to errors[message]
C7_Fold ==
  (q # <<>> /\ q' = Tail(q) /\ Head(q).error # {}) =>
    \E m \in Head(q).error :
      /\ stats'.failed_requests = stats.failed_requests + 1
      /\ stats'.successful_requests = stats.successful_requests
      /\ m \in DOMAIN stats'.errors
      /\ stats'.errors[m] = (IF m \in DOMAIN stats.errors THEN stats.errors[m] ELSE 0) + 1

\* C7 (refused connections): when connecting is all that ever failed and nothing
\* succeeded, failed_requests = total_requests, all under the connect failure's key
C7_AllRefused ==
  (DOMAIN stats.status_codes = {} /\ DOMAIN stats.errors \subseteq {ErrConnect}) =>
    /\ stats.failed_requests = stats.total_requests
    /\ stats.total_requests > 0 => stats.errors[ErrConnect] = stats.total_requests

\* C7: a request's error never interrupts its task: the task publishes exactly one
\* outcome with the error set and goes on; the collector counts it as failed and
\* under errors[message]; when every connection is refused, failed = total.
C7_ErrorsDoNotInterrupt == []C7_AllRefused /\ [][C7_Step /\ C7_Fold]_vars

\* C7 witness: a headless run has returned in which the one task had both of its
\* connection attempts refused and went on after the first.
C7_Witness ==
  /\ mpc = "returned"
  /\ ~live_ui
  /\ actual_threads = 1
  /\ request_count[1] = 2
  /\ stats.failed_requests = 2
  /\ stats.total_requests = 2
  /\ DOMAIN stats.errors = {ErrConnect}
  /\ stats.errors[ErrConnect] = 2

\* C8 (steps): a request that returns success leaves its sender in the ClientState;
\* a request that finds a sender there takes it and connects nothing; a sender that
\* reports ready is used as it is
C8_Step ==
  \A t \in Tasks :
    /\ (pc[t] = "send" /\ Returns(t) /\ cpc # "done" /\ Appended.error = {}) =>
         client_state'[StateOf(t)] = "Some"
    /\ (pc[t] = "start" /\ client_state[StateOf(t)] = "Some" /\ pc'[t] # "start" /\ ~Returns(t)) =>
         /\ pc'[t] = "ready"
         /\ send_request'[t] = "Some"
         /\ established'[t] = established[t]
    /\ (pc[t] = "ready" /\ pc'[t] = "send") => established'[t] = established[t]

\* C8 (whole run): a task none of whose requests failed and none of whose senders was
\* found not ready has established at most one connection, exactly one once a
\* request has returned
C8_OneConnection ==
  \A t \in Tasks :
    clean[t] =>
      /\ established[t] <= 1
      /\ request_count[t] >= 1 => established[t] = 1

\* C8: keep-alive reuse: after a success the ClientState holds the sender, the next
\* request establishes no connection while that sender is ready, and a task whose
\* requests all succeed on a healthy connection establishes exactly one connection.
C8_KeepAliveReuse == []C8_OneConnection /\ [][C8_Step]_vars

\* C8 witness: a task has had two requests succeed over its one connection, and the
\* sender is back in the ClientState.
C8_Witness ==
  \E t \in Tasks :
    /\ clean[t]
    /\ request_count[t] = 2
    /\ established[t] = 1
    /\ client_state[StateOf(t)] = "Some"

C10_OneInFlight ==
  /\ \A c \in ClientStates : inflight[c] <= 1
  /\ \A t \in Tasks : inflight[StateOf(t)] = IF InRequest(t) THEN 1 ELSE 0
  /\ \A t1, t2 \in Tasks : StateOf(t1) = StateOf(t2) => t1 = t2

\* C10 witness: two tasks are in their requests at the same time, each on its own
\* ClientState.
C10_Witness ==
  /\ actual_threads = 2
  /\ InRequest(1)
  /\ InRequest(2)
  /\ inflight[StateOf(1)] = 1
  /\ inflight[StateOf(2)] = 1

\* the number of times task t has selected the template at index i
TimesPicked(t, i) == Cardinality({k \in 1..Len(picked[t]) : picked[t][k] = i})

\* C11: round-robin: the k-th request a task issues (k = 0, 1, 2, ...) uses template
\* k mod n, counted per task, and the outcome of that request is tagged with that
\* template's URL; so after N selections every template has been selected by the
\* task floor(N/n) or ceil(N/n) times.
C11_RoundRobin ==
  load_strategy = RoundRobin =>
    /\ \A t \in Tasks :
         /\ Len(picked[t]) = request_count[t] + (IF pc[t] = "start" THEN 1 ELSE 0)
         /\ \A k \in 1..Len(picked[t]) : picked[t][k] = (k - 1) % commands
         /\ pc[t] = "start" => cmd[t] = request_count[t] % commands
         /\ \A i \in 0..(commands - 1) :
              /\ TimesPicked(t, i) >= Len(picked[t]) \div commands
              /\ TimesPicked(t, i) <= (Len(picked[t]) + commands - 1) \div commands
    /\ \A j \in 1..Len(q) : commands > 1 => q[j].endpoint = {Url(q[j].seq % commands)}

\* C11 witness: round-robin over three templates: a task has issued four requests,
\* on templates 0, 1, 2 and 0 again.
C11_Witness ==
  /\ load_strategy = RoundRobin
  /\ commands = 3
  /\ \E t \in Tasks : request_count[t] = 4 /\ picked[t] = <<0, 1, 2, 0>>

\* endpoint_stats[u].requests, zero while the endpoint has no entry
EndpointRequests(u) ==
  IF u \in DOMAIN stats.endpoint_stats THEN stats.endpoint_stats[u].requests ELSE 0

\* C12: two templates, round-robin, any number of tasks: the request counts of the
\* two endpoints in the Statistics differ by at most the number of tasks, at every
\* point of the run and so in the final Statistics, however the tasks interleave and
\* wherever they hit the deadline.
C12_EndpointsBalanced ==
  (commands = 2 /\ load_strategy = RoundRobin) =>
    /\ EndpointRequests(Url(0)) - EndpointRequests(Url(1)) <= Cardinality(Tasks)
    /\ EndpointRequests(Url(1)) - EndpointRequests(Url(0)) <= Cardinality(Tasks)
    /\ EndpointRequests(Url(0)) + EndpointRequests(Url(1)) = stats.total_requests

\* C12 witness: a round-robin run of two tasks over two templates has returned with
\* four requests recorded, the first endpoint two ahead of the second.
C12_Witness ==
  /\ commands = 2
  /\ load_strategy = RoundRobin
  /\ mpc = "returned"
  /\ Cardinality(Tasks) = 2
  /\ stats.total_requests = 4
  /\ EndpointRequests(Url(0)) = 3
  /\ EndpointRequests(Url(1)) = 1

\* 1/rate seconds in ticks, for rate > 0
GapTicks == (TicksPerSec + rate - 1) \div rate

\* C13 (steps): with a rate, a task begins to sleep when it has published an outcome,
\* wakes to its deadline check only after 1/rate seconds, and takes a start timestamp
\* only 1/rate seconds or more after its previous one; with rate 0 it never sleeps
C13_Step ==
  \A t \in Tasks :
    /\ (rate > 0 /\ Returns(t)) => pc'[t] = "sleep" /\ slept'[t] = 0
    /\ (pc[t] = "sleep" /\ pc'[t] # "sleep") => pc'[t] = "check" /\ slept[t] >= GapTicks
    /\ (rate > 0 /\ pc[t] = "start" /\ pc'[t] # "start" /\ request_count[t] >= 1) =>
         since_start[t] >= GapTicks
    /\ rate = 0 => pc'[t] # "sleep"

\* C13 (counts): with a rate, a task has issued at most one request per 1/rate
\* seconds passed, plus the one at the beginning; all tasks together at most that
\* many each
C13_Counts ==
  rate > 0 =>
    /\ \A t \in Tasks : request_count[t] <= (now \div GapTicks) + 1
    /\ TotalIssued <= Cardinality(Tasks) * ((now \div GapTicks) + 1)

\* C13: pacing is per task: with rate R > 0 a task sleeps 1/R seconds after each
\* outcome and before its next deadline check, its consecutive request starts are at
\* least 1/R apart and it never exceeds R requests per second; with R = 0 there is no
\* sleep; the run as a whole is bounded by R times the number of tasks.
C13_RatePacing == []C13_Counts /\ [][C13_Step]_vars

\* C13 witness: rate 2, two tasks, each has issued two requests half a second
\* apart: together more than a single task may have issued by then.
C13_Witness ==
  /\ rate = 2
  /\ Cardinality(Tasks) = 2
  /\ \A t \in Tasks : request_count[t] = 2
  /\ TotalIssued > (now \div GapTicks) + 1

\* the number of get_client calls that returned client c
TimesHanded(c) == Cardinality({i \in 1..Len(handed) : handed[i][2] = c})

\* C14 (state part): the pool holds P = min(threads started, 20) clients; the i-th
\* call in counter order read the value i and got client i mod P, no two calls read
\* the same value, and every client has been handed out floor(N/P) or ceil(N/P) times
C14_Inv ==
  LET P == Len(pool.clients)
      N == Len(handed)
  IN /\ P = (IF actual_threads < 20 THEN actual_threads ELSE 20)
     /\ pool.next_index = N
     /\ \A i \in 1..N : handed[i] = <<i - 1, pool.clients[((i - 1) % P) + 1]>>
     /\ \A i, j \in 1..N : handed[i][1] = handed[j][1] => i = j
     /\ \A t \in Tasks : \A c \in client[t] : \E i \in 1..N : handed[i][2] = c
     /\ \A k \in 1..P :
          /\ TimesHanded(pool.clients[k]) >= N \div P
          /\ TimesHanded(pool.clients[k]) <= (N + P - 1) \div P

\* C14: the pool's client sequence never changes after construction and has
\* P = min(worker threads, 20) clients; the i-th get_client call in the order of the
\* counter returns client i mod P, no two concurrent calls see the same counter
\* value, and after N calls every client has been handed out floor(N/P) or ceil(N/P)
\* times.
C14_PoolHandOut == []C14_Inv /\ [][pool'.clients = pool.clients]_vars

\* C14 witness: two threads of two tasks each share a pool of two clients; the
\* second thread called first, three calls have been made, and client 0 is one
\* hand-out ahead of client 1.
C14_Witness ==
  /\ Len(pool.clients) = 2
  /\ connections_per_thread = 2
  /\ pool.next_index = 3
  /\ client[3] = {0}
  /\ client[1] = {1}
  /\ client[2] = {0}
  /\ client[4] = {}

\* C15: the number of worker threads is the physical core count for T = 0 and
\* min(T, 2 x cores) otherwise; every thread hosts K = max(1, C div threads started)
\* tasks; the headless and the live-UI path compute the same sizes.
C15_Sizing ==
  LET cores == NumPhysicalCpus
      started == IF threads = 0 THEN cores ELSE IF threads < 2 * cores THEN threads ELSE 2 * cores
      K == IF connections \div started >= 1 THEN connections \div started ELSE 1
  IN /\ actual_threads = started
     /\ connections_per_thread = K
     /\ \A th \in Threads : Cardinality({t \in Tasks : ThreadOf(t) = th}) = K
     /\ ActualThreads(threads) = ActualThreadsUi(threads)
     /\ ConnectionsPerThread(connections, threads) = ConnectionsPerThreadUi(connections, threads)

\* C15 witness: a live-UI run with 3 threads and 5 connections requested on one core
\* has started 2 threads of 2 tasks each.
C15_Witness ==
  /\ live_ui
  /\ threads = 3
  /\ connections = 5
  /\ actual_threads = 2
  /\ connections_per_thread = 2
  /\ \A t \in Tasks : pc[t] = "check"

\* the URLs of the active templates, as written
ActiveUrls == {Urls[i] : i \in 1..commands}

\* C16: an outcome carries an endpoint tag iff more than one template is active, and
\* the tag is the unsubstituted URL of the template selected for that request; with
\* one template endpoint_stats stays empty, with several every key of endpoint_stats
\* is the URL of a template.
C16_EndpointTag ==
  /\ \A j \in 1..Len(q) :
       /\ (q[j].endpoint # {}) <=> (commands > 1)
       /\ commands > 1 => q[j].endpoint = {Urls[picked[q[j].task][q[j].seq + 1] + 1]}
  /\ commands = 1 => DOMAIN stats.endpoint_stats = {}
  /\ commands > 1 =>
       /\ DOMAIN stats.endpoint_stats \subseteq ActiveUrls
       /\ SumOver([u \in DOMAIN stats.endpoint_stats |-> stats.endpoint_stats[u].requests],
                  DOMAIN stats.endpoint_stats) = stats.total_requests

\* C16 witness: a run over two templates, selected at random, has returned with both
\* templates' URLs, the one with a placeholder as it is written, as the keys of
\* endpoint_stats.
C16_Witness ==
  /\ commands = 2
  /\ load_strategy = Random
  /\ mpc = "returned"
  /\ DOMAIN stats.endpoint_stats = {"/a?id={{id}}", "/b"}
  /\ stats.endpoint_stats["/b"].requests = 3

\* the count a histogram map holds for key k, zero while k has no entry
CountOf(m, k) == IF k \in DOMAIN m THEN m[k] ELSE 0

\* the entry of endpoint u in s, a fresh one while u has no entry
EntryOf(s, u) == IF u \in DOMAIN s.endpoint_stats THEN s.endpoint_stats[u] ELSE NewEndpointStats

\* C17 (state part): no endpoint's requests, errors, bytes or status counts exceed
\* the global ones
C17_Sums ==
  \A u \in DOMAIN stats.endpoint_stats :
    /\ stats.endpoint_stats[u].requests <= stats.total_requests
    /\ stats.endpoint_stats[u].errors <= stats.failed_requests
    /\ stats.endpoint_stats[u].total_bytes <= stats.total_bytes
    /\ \A c \in DOMAIN stats.endpoint_stats[u].status_codes :
         stats.endpoint_stats[u].status_codes[c] <= CountOf(stats.status_codes, c)

\* C17 (step part): a record call with an endpoint changes that endpoint's entry by
\* what it changes the global counters by, and no other entry; one without an
\* endpoint changes no entry
C17_Step ==
  stats' # stats =>
    \E r \in last' :
      IF r.endpoint = {}
      THEN stats'.endpoint_stats = stats.endpoint_stats
      ELSE \E u \in r.endpoint :
             /\ DOMAIN stats'.endpoint_stats = DOMAIN stats.endpoint_stats \cup {u}
             /\ \A v \in DOMAIN stats.endpoint_stats \ {u} :
                  stats'.endpoint_stats[v] = stats.endpoint_stats[v]
             /\ EntryOf(stats', u).requests - EntryOf(stats, u).requests
                  = stats'.total_requests - stats.total_requests
             /\ EntryOf(stats', u).errors - EntryOf(stats, u).errors
                  = stats'.failed_requests - stats.failed_requests
             /\ EntryOf(stats', u).total_bytes - EntryOf(stats, u).total_bytes
                  = stats'.total_bytes - stats.total_bytes
             /\ \A c \in StatusSet :
                  CountOf(EntryOf(stats', u).status_codes, c) - CountOf(EntryOf(stats, u).status_codes, c)
                    = CountOf(stats'.status_codes, c) - CountOf(stats.status_codes, c)

\* C17: after any sequence of record calls every endpoint's requests, errors and
\* bytes are at most the global ones; an outcome with an endpoint updates that
\* endpoint's counters, status codes and bytes by the same amounts as the global
\* ones, and an outcome without an endpoint changes no endpoint entry.
C17_EndpointSums == []C17_Sums /\ [][C17_Step]_vars

\* C17 witness: three outcomes recorded: one without endpoint, a failure on /a and
\* an answer with bytes on /b; both entries are below the global counters.
C17_Witness ==
  /\ mpc = "stats"
  /\ stats.total_requests = 3
  /\ DOMAIN stats.endpoint_stats = {"/a", "/b"}
  /\ stats.endpoint_stats["/a"].errors = 1
  /\ stats.endpoint_stats["/b"].total_bytes = 4
  /\ stats.endpoint_stats["/b"].requests < stats.total_requests
  /\ stats.total_bytes > stats.endpoint_stats["/b"].total_bytes

\* sum(status_codes.values) of s
StatusSum(s) == SumOver(s.status_codes, DOMAIN s.status_codes)

\* C18 (state part): the status counts sum to at most total_requests, and to
\* total_requests while no recorded outcome carried an error
C18_Sums ==
  \A s \in {stats, shared} :
    /\ StatusSum(s) <= s.total_requests
    /\ DOMAIN s.errors = {} => StatusSum(s) = s.total_requests

\* C18 (step part): folding an outcome increments status_codes[c] by one when the
\* outcome carries status c and leaves it alone otherwise
C18_Step ==
  stats'.total_requests # stats.total_requests =>
    /\ q # <<>>
    /\ \A c \in StatusSet :
         CountOf(stats'.status_codes, c) - CountOf(stats.status_codes, c)
           = IF Head(q).status_code = {c} THEN 1 ELSE 0
    /\ DOMAIN stats'.status_codes \subseteq StatusSet

\* C18: status_codes[s] is incremented exactly when a recorded outcome carries
\* status s, so the sum of the status counts never exceeds total_requests, and in a
\* run in which no outcome carries an error the sum equals total_requests.
C18_StatusAccounting == []C18_Sums /\ [][C18_Step]_vars

\* C18 witness: a finished run of two answered requests with different statuses and
\* no error; the two status counts sum to total_requests.
C18_Witness ==
  /\ mpc = "returned"
  /\ DOMAIN stats.errors = {}
  /\ stats.total_requests = 2
  /\ DOMAIN stats.status_codes = {200, 500}
  /\ StatusSum(stats) = 2

\* C19: finish is idempotent in effect: a second finish leaves every read of the
\* Statistics (counters, maps, end_time, duration, requests_per_sec, bytes_per_sec)
\* equal to what it was after the first, and two snapshots taken after finish are
\* equal.
C19_FinishIdempotent ==
  [][(stats.end_time # {} /\ stats'.total_requests = stats.total_requests) =>
       /\ Reads(stats', now') = Reads(stats, now)
       /\ FromStatistics(stats') = FromStatistics(stats)]_vars

\* the Statistics values of the run: the collector's own and, with the live UI, the
\* shared copy
RunStatistics == IF live_ui THEN {"stats", "shared"} ELSE {"stats"}

\* the Statistics named n, in the current state
StatisticsOf(n) == IF n = "stats" THEN stats ELSE shared

\* C20 (state part): end_time is set exactly while the collector has ended, on each
\* Statistics of the run, and a returned run has ended its collector
C20_Finished ==
  /\ \A n \in RunStatistics : (StatisticsOf(n).end_time # {}) <=> (cpc = "done")
  /\ mpc = "returned" => cpc = "done"
  /\ ~live_ui => shared = NewStatistics

\* C20 (step part): finish acts in one step only, the one that ends the collector:
\* there end_time goes from unset to set and nothing is recorded; after it neither
\* Statistics changes again
C20_Step ==
  /\ cpc = "done" => cpc' = "done" /\ stats' = stats /\ shared' = shared
  /\ (cpc # "done" /\ cpc' = "done") =>
       /\ stats.end_time = {} /\ stats'.end_time # {}
       /\ FromStatistics(stats') = FromStatistics(stats)
       /\ FromStatistics(shared') = FromStatistics(shared)
       /\ live_ui => shared.end_time = {} /\ shared'.end_time # {}
  /\ (cpc' # "done") => stats'.end_time = {} /\ shared'.end_time = {}

\* C20: on the headless and on the live-UI path finish is called exactly once on
\* each Statistics (the collector's own and, with the live UI, the shared copy):
\* end_time goes from unset to set exactly once, and no record call on that
\* Statistics happens after its finish.
C20_FinishOnce == []C20_Finished /\ [][C20_Step]_vars

\* C20 witness: a returned live-UI run that recorded a request; both Statistics
\* have their end_time set and hold the same counters.
C20_Witness ==
  /\ live_ui
  /\ mpc = "returned"
  /\ stats.total_requests >= 1
  /\ stats.end_time # {}
  /\ shared.end_time # {}
  /\ FromStatistics(shared) = FromStatistics(stats)

\* the latency values one histogram reports are ordered
LatencyOrdered(requests, h) ==
  LET l == LatencySnapshot(requests, h)
  IN /\ l.min <= l.avg /\ l.avg <= l.max
     /\ l.p50 <= l.p75 /\ l.p75 <= l.p90 /\ l.p90 <= l.p95 /\ l.p95 <= l.p99
     /\ l.p99 <= l.max

\* C21: for every non-empty multiset of recorded durations the reported values
\* satisfy min <= mean <= max and P50 <= P75 <= P90 <= P95 <= P99 <= max; every
\* recorded outcome adds one sample to the global histogram, and one to its
\* endpoint's histogram when tagged, so the sample count equals total_requests.
C21_LatencyOrder ==
  /\ hist.total_count = stats.total_requests
  /\ hist.total_count = SumOver(hist.counts, DOMAIN hist.counts)
  /\ stats.total_requests > 0 => LatencyOrdered(stats.total_requests, hist)
  /\ DOMAIN ephist = DOMAIN stats.endpoint_stats
  /\ \A u \in DOMAIN ephist :
       /\ ephist[u].total_count = stats.endpoint_stats[u].requests
       /\ LatencyOrdered(stats.endpoint_stats[u].requests, ephist[u])

\* C21 witness: three durations recorded, two of them sharing a bucket of width 8
\* and tagged /a; the reported minimum, mean and maximum differ.
C21_Witness ==
  /\ stats.total_requests = 3
  /\ hist.counts = (3 :> 1) @@ (8192 :> 2)
  /\ DOMAIN ephist = {"/a"}
  /\ ephist["/a"].total_count = 2
  /\ HistMin(hist) = 3
  /\ HistMean(hist) = 5465
  /\ HistMax(hist) = 8199
  /\ HistValueAtPercentile(hist, 50) = 8199

\* C22 (state part): a task has left its loop only at or after the deadline and a
\* task at its loop check can take it, whatever the UI did; a send on the snapshot
\* channel has room or finds the receiver gone; a finished run holds the final
\* Statistics
C22_Inv ==
  /\ \A t \in Tasks :
       /\ pc[t] = "done" => now >= end_time
       /\ (pc[t] = "check" /\ Issued < ReqCap) => ENABLED TaskCheck(t)
  /\ (upc = "send" \/ mpc = "final") => (ui = "ended" \/ Len(ui_chan) < SnapshotCapacity)
  /\ mpc = "finished" => (cpc = "done" /\ stats.end_time # {} /\ \A t \in Tasks : pc[t] = "done")

\* C22 (step part): a step of the UI task changes nothing of the workers, the
\* channel, the collector and the driver
C22_Step ==
  (ui' # ui \/ should_stop' # should_stop) =>
    UNCHANGED <<runVars, chanVars, collVars, mainVars, updVars, mutex>>

\* C22: when the live UI stops early the worker tasks go on until the deadline as
\* they do with the UI running, the snapshot updater stops, no send on the snapshot
\* channel blocks for ever, and once the workers and the collector have returned
\* run_benchmark_with_ui returns the final Statistics.
C22_NoCancellation ==
  /\ []C22_Inv
  /\ [][C22_Step]_vars
  /\ (ui = "ended") ~> (upc = "done")
  /\ (upc = "send") ~> (upc # "send")
  /\ (mpc = "returned") ~> (mpc = "finished")

\* C22 witness: the UI was stopped by a key before any snapshot was delivered; the
\* task issued its requests all the same, the updater ended on its failed send and
\* the run finished with every request recorded.
C22_Witness ==
  /\ should_stop
  /\ snapshots_sent = 0
  /\ mpc = "finished"
  /\ upc = "done"
  /\ usnap # {}
  /\ stats.total_requests = MaxReq

\* the collector positions in which it holds the guard, and those in which it waits
\* for it
CollHeld == {"recv_held", "drain_held", "finish_held"}
CollWaits == {"recv_lock", "drain_lock", "finish_lock"}

\* C23 (state part): the collector holds the mutex only between its lock and the
\* end of the record or finish call, never at a receive; the updater only while it
\* builds the snapshot, never in its sleep or its send; a thread that waits for the
\* mutex does not hold it, and the holder can always go on to release it
C23_Inv ==
  /\ mutex \in {{}, {"collector"}, {"updater"}}
  /\ (mutex = {"collector"}) <=> (cpc \in CollHeld)
  /\ (mutex = {"updater"}) <=> (upc = "held")
  /\ cpc \in {"recv", "drain"} => mutex # {"collector"}
  /\ upc \in {"sleep", "send"} => mutex # {"updater"}
  /\ (cpc \in CollWaits /\ mutex # {}) => (mutex = {"updater"} /\ ENABLED UpdaterSnapshot)
  /\ (upc = "lock" /\ mutex # {}) =>
       (mutex = {"collector"} /\ ENABLED (CollSharedRecord \/ CollSharedFinish))
  /\ (cpc \in CollWaits /\ mutex = {}) => ENABLED CollLock
  /\ (upc = "lock" /\ mutex = {}) => ENABLED UpdaterLock

\* C23 (step part): the collector's hold covers one record or one finish on the
\* shared copy, the updater's the building of one snapshot; the shared copy changes
\* only under the collector's hold; nothing is received or sent under a hold
C23_Step ==
  /\ (mutex = {"collector"} /\ mutex' # mutex) =>
       /\ mutex' = {}
       /\ \/ /\ shared'.total_requests = shared.total_requests + 1
             /\ shared'.end_time = shared.end_time
          \/ /\ FromStatistics(shared') = FromStatistics(shared)
             /\ shared.end_time = {} /\ shared'.end_time # {}
  /\ (mutex = {"updater"} /\ mutex' # mutex) =>
       /\ mutex' = {}
       /\ usnap' = {FromStatistics(shared)}
       /\ shared' = shared
  /\ shared' # shared => mutex = {"collector"}
  /\ Len(q') < Len(q) => mutex # {"collector"}
  /\ upc' = "sleep" => mutex # {"updater"}
  /\ (Len(ui_chan') > Len(ui_chan) /\ mpc' = mpc) => mutex # {"updater"}

\* C23: in the live-UI path the collector holds the shared-statistics mutex only
\* for one record or finish call and has released it before every channel receive;
\* the updater holds it only while building a snapshot and has released it before
\* its sleep and its send; no thread waits for the mutex while holding it, so the
\* two cannot deadlock.
C23_Locking == []C23_Inv /\ [][C23_Step]_vars

\* C23 witness: the updater waits for the mutex while the collector holds it for a
\* record call on the shared copy.
C23_Witness ==
  /\ upc = "lock"
  /\ cpc = "recv_held"
  /\ mutex = {"collector"}
  /\ shared.total_requests + 1 = stats.total_requests

\* the positions in the collector's log of the outcomes of task t
LogOf(t) == {i \in 1..Len(log) : log[i][1] = t}

\* C28: for every task the collector records that task's outcomes in the order the
\* task issued the requests: outcome k of a task is recorded before outcome k+1 of
\* the same task, under every interleaving with other tasks; outcomes still queued
\* are in that order too and are later than the recorded ones.
C28_PerTaskFifo ==
  \A t \in Tasks :
    /\ \A i, j \in LogOf(t) : i < j => log[i][2] < log[j][2]
    /\ \A i, j \in 1..Len(q) : (i < j /\ q[i].task = t /\ q[j].task = t) => q[i].seq < q[j].seq
    /\ \A i \in LogOf(t) : \A j \in 1..Len(q) : q[j].task = t => log[i][2] < q[j].seq
    /\ \A i \in LogOf(t) : log[i][2] = Cardinality({j \in LogOf(t) : j < i})

\* C28 witness: two tasks, two outcomes each; the collector recorded task 2's first
\* outcome before task 1's and task 2's second after task 1's: each task's own
\* outcomes are in order, the tasks' outcomes are interleaved either way.
C28_Witness ==
  log = <<<<2, 0>>, <<1, 0>>, <<1, 1>>, <<2, 1>>>>

\* ------------------------------------------------------------------ C30

\* C30 (as stated): after a request whose send fails, the ClientState is Empty: it
\* holds no sender.
C30_EmptyAfterSendFailure ==
  [][\A t \in Tasks :
       (pc[t] = "send" /\ Returns(t) /\ cpc # "done" /\ Appended.error = {ErrSend}) =>
         client_state'[StateOf(t)] = "None"]_vars

\* C30 (amended): after a request whose send fails, the ClientState holds the sender
\* that failed; the next request on that state takes it and goes to the readiness
\* check, not to Connecting, and a fresh connection is established only when that
\* check finds the sender not ready.
C30_SenderKeptAfterSendFailure ==
  [][\A t \in Tasks :
       /\ (pc[t] = "send" /\ Returns(t) /\ cpc # "done" /\ Appended.error = {ErrSend}) =>
            /\ send_request[t] = "Some"
            /\ client_state'[StateOf(t)] = "Some"
       /\ (pc[t] = "start" /\ client_state[StateOf(t)] = "Some" /\ pc'[t] # "start"
             /\ ~Returns(t)) =>
            /\ pc'[t] = "ready"
            /\ send_request'[t] = "Some"
            /\ client_state'[StateOf(t)] = "None"
            /\ established'[t] = established[t]
       /\ (pc[t] = "ready" /\ pc'[t] = "connect") => send_request'[t] = "None"
       /\ established'[t] # established[t] => pc[t] = "connect"]_vars

\* C30 witness: the one task's first request failed at send time and its second
\* request succeeded on the sender that was kept, with no second connection.
C30_Witness ==
  /\ actual_threads = 1
  /\ Len(q) = 2
  /\ q[1].task = 1 /\ q[1].error = {ErrSend}
  /\ q[2].task = 1 /\ q[2].status_code # {} /\ q[2].error = {}
  /\ established[1] = 1
  /\ client_state[StateOf(1)] = "Some"

\* ------------------------------------------------------------------ the template engine alone

\* process calls made in a run of the template engine
MaxCalls == 2

\* --var arguments
VarArgs ==
  {<<"i", "d", "=", "r", "a", "n", "d", "o", "m", ":", "1", "-", "2">>, <<"i", "d", "=", "r", "a", "n", "d", "o", "m", ":", "2", "-", "1">>, <<"i", "d", "=", "r", "a", "n", "d", "o", "m", ":", "1">>, <<"i", "d", "=", "c", "h", "o", "i", "c", "e", ":", "a", ",", "b">>,
   <<"n", "=", "s", "e", "q", "u", "e", "n", "c", "e", ":", "5">>, <<"n", "=", "s", "e", "q", "u", "e", "n", "c", "e", ":", "x">>, <<"n", "=", "n", "o", "w", ":", "d", "a", "t", "e">>, <<"n", "=", "v">>, <<"i", "d">>}

\* the name of a --var argument: &var[..pos]
NameOf(var) == SubSeq(var, 1, FindChar(var, "=") - 1)

\* the definition of a --var argument: &var[pos + 1..]
DefinitionOf(var) == SkipTo(var, FindChar(var, "="))

\* texts handed to process
Texts ==
  {<<"/", "a">>, <<"{", "a", "}", "/", "{", "{", "}", "}">>, <<"{", "{", "a", "}", "b", "}", "}">>, <<"/", "{", "{", "z", "z", "}", "}", "/">>, <<"{", "{", "i", "d", "}", "}">>, <<"{", "{", "n", "}", "}">>, <<"x", "{", "{", " ", "i", "d", " ", "}", "}", "y">>,
   <<"{", "{", "r", "a", "n", "d", "o", "m", ":", "1", "-", "2", "}", "}">>, <<"{", "{", "r", "a", "n", "d", "o", "m", ":", "2", "-", "1", "}", "}">>, <<"{", "{", "r", "a", "n", "d", "o", "m", ":", "1", "}", "}">>, <<"{", "{", "s", "e", "q", "u", "e", "n", "c", "e", ":", "5", "}", "}">>,
   <<"{", "{", "s", "e", "q", "u", "e", "n", "c", "e", ":", "x", "}", "}">>, <<"{", "{", "c", "h", "o", "i", "c", "e", ":", "a", ",", "b", "}", "}">>, <<"{", "{", "c", "h", "o", "i", "c", "e", ":", "}", "}">>, <<"{", "{", "u", "u", "i", "d", "}", "}">>, <<"{", "{", "n", "o", "w", "}", "}">>,
   <<"{", "{", "n", "o", "w", ":", "b", "o", "g", "u", "s", "}", "}">>, <<"/", "{", "{", "u", "u", "i", "d", "}", "}", "/", "{", "{", "z", "z", "}", "}">>,
   <<"{", "{", "r", "a", "n", "d", "o", "m", ":", "-", "2", "-", "1", "}", "}">>, <<"x", "{", "{", "u", "u", "i", "d", "}", "}", "y">>, <<"/", "{", "{", "i", "d", "}", "}", "/", "{", "{", "n", "o", "w", ":", "d", "a", "t", "e", "}", "}", "?", "{", "{", "n", "}", "}">>}

InitTpl == InitStats

\* one round of the --var loop of run_benchmark: an argument with no '=' is skipped;
\* otherwise add_variable(name, definition) parses the definition, gives a sequence
\* its counter and stores the variable; a definition that does not parse is an error
AddVariable ==
  /\ calls = <<>>
  /\ add_result # "err"
  /\ \E var \in VarArgs :
       LET r == ParseVariableDefinition(DefinitionOf(var)) IN
       IF FindChar(var, "=") = 0
         THEN UNCHANGED <<variables, sequences, add_result>>
       ELSE IF r.ok
         THEN /\ variables' = Insert(variables, NameOf(var), r.val)
              /\ sequences' = IF r.val.kind = "Sequence"
                              THEN Insert(sequences, NameOf(var), r.val.start)
                              ELSE sequences
              /\ add_result' = "ok"
       ELSE /\ add_result' = "err"
            /\ UNCHANGED <<variables, sequences>>
  /\ UNCHANGED <<calls, durVars, cfgVars, curlVars, peerVars, histVars, liveVars, config, poolVars, selVars, now, taskVars, connVars,
                 chanVars, collVars, mainVars>>

\* a task calls process(text)
ProcessText ==
  /\ add_result # "err"
  /\ Len(calls) < MaxCalls
  /\ \E text \in Texts :
       \E r \in Process(variables, text) :
         calls' = Append(calls, [text |-> text, result |-> r])
  /\ UNCHANGED <<variables, sequences, add_result, durVars, cfgVars, curlVars, peerVars, histVars, liveVars,
                 config, poolVars, selVars,
                 now, taskVars, connVars, chanVars, collVars, mainVars>>

NextTpl == AddVariable \/ ProcessText

SpecTpl == InitTpl /\ [][NextTpl]_vars

\* ------------------------------------------------------------------ C26

RECURSIVE Placeholders(_)
\* the names of the placeholders of a text, in order
Placeholders(s) ==
  IF s = <<>> THEN <<>>
  ELSE IF MatchesAtHead(s) THEN <<Capture(s)>> \o Placeholders(AfterMatch(s))
  ELSE Placeholders(Tail(s))

\* an inline generator of the documented grammar, its arguments well formed
WellFormedInline(name) ==
  \/ name \in {<<"u", "u", "i", "d">>, <<"t", "i", "m", "e", "s", "t", "a", "m", "p">>, <<"n", "o", "w">>}
  \/ StartsWith(name, <<"r", "a", "n", "d", "o", "m", ":">>) /\ ParseRandom(SkipTo(name, 7)).ok
  \/ StartsWith(name, <<"t", "i", "m", "e", "s", "t", "a", "m", "p", ":">>) /\ ParseTimestampFormat(SkipTo(name, 10)).ok
  \/ StartsWith(name, <<"n", "o", "w", ":">>) /\ ParseTimestampFormat(SkipTo(name, 4)).ok
  \/ StartsWith(name, <<"s", "e", "q", "u", "e", "n", "c", "e", ":">>) /\ AllDigits(SkipTo(name, 9))
  \/ StartsWith(name, <<"c", "h", "o", "i", "c", "e", ":">>) /\ SkipTo(name, 7) # <<>>

\* no placeholder of the text is a defined variable or a well-formed inline generator
NothingRecognised(s) ==
  \A i \in 1..Len(Placeholders(s)) :
    /\ Placeholders(s)[i] \notin DOMAIN variables
    /\ ~WellFormedInline(Placeholders(s)[i])

\* C26 (as stated): process never fails, and a text in which nothing is recognised --
\* no placeholder at all, or only placeholders that are neither defined variables nor
\* well-formed inline generators -- comes back byte for byte.
C26_IdentityWhereUnrecognised ==
  \A i \in 1..Len(calls) :
    /\ ~calls[i].result.panic
    /\ NothingRecognised(calls[i].text) => calls[i].result.text = calls[i].text

\* ------------------------------------------------------------------ C27

\* call i evaluates one sequence placeholder and nothing else
IsSequenceCall(i) ==
  /\ Len(Placeholders(calls[i].text)) = 1
  /\ calls[i].text = <<"{", "{">> \o Placeholders(calls[i].text)[1] \o <<"}", "}">>
  /\ IF Placeholders(calls[i].text)[1] \in DOMAIN variables
     THEN variables[Placeholders(calls[i].text)[1]].kind = "Sequence"
     ELSE /\ StartsWith(Placeholders(calls[i].text)[1], <<"s", "e", "q", "u", "e", "n", "c", "e", ":">>)
          /\ AllDigits(SkipTo(Placeholders(calls[i].text)[1], 9))

\* START of the sequence call i evaluates
StartOf(i) ==
  IF Placeholders(calls[i].text)[1] \in DOMAIN variables
  THEN variables[Placeholders(calls[i].text)[1]].start
  ELSE DecimalValue(SkipTo(Placeholders(calls[i].text)[1], 9))

\* the evaluations of the same placeholder made before call i
EarlierEvaluations(i) == Cardinality({j \in 1..(i - 1) : calls[j].text = calls[i].text})

\* C27 (as stated): successive evaluations of a sequence placeholder return START,
\* START+1, START+2, ..., one increment per evaluation.
C27_SequenceIncrements ==
  \A i \in 1..Len(calls) :
    IsSequenceCall(i) =>
      calls[i].result = Processed(NumToString(StartOf(i) + EarlierEvaluations(i)))

\* ------------------------------------------------------------------ duration strings alone

\* the numeric parts of the duration strings tried
Numerals ==
  {<<"0">>, <<"5">>, <<"0", "0", "7">>, <<"1", "5", "0", "0">>, <<"1", "0", "0">>, <<>>, <<"+", "5">>, <<"-", "5">>, <<"5", "x">>, <<"1", ".", "5">>, <<"5", " ">>,
   <<"1", "8", "4", "4", "6", "7", "4", "4", "0", "7", "3", "7", "0", "9", "5", "5", "1", "6", "1", "5">>, <<"1", "8", "4", "4", "6", "7", "4", "4", "0", "7", "3", "7", "0", "9", "5", "5", "1", "6", "1", "6">>,
   <<"3", "0", "7", "4", "4", "5", "7", "3", "4", "5", "6", "1", "8", "2", "5", "8", "6", "0">>, <<"3", "0", "7", "4", "4", "5", "7", "3", "4", "5", "6", "1", "8", "2", "5", "8", "6", "1">>,
   <<"5", "1", "2", "4", "0", "9", "5", "5", "7", "6", "0", "3", "0", "4", "3", "1">>, <<"5", "1", "2", "4", "0", "9", "5", "5", "7", "6", "0", "3", "0", "4", "3", "2">>}

\* their suffixes
Suffixes == {<<>>, <<"m", "s">>, <<"s">>, <<"m">>, <<"h">>, <<"S">>, <<"s", "m">>}

\* white space around them
Pads == {<<>>, <<" ">>}

\* the strings given to --duration and --timeout
DurationStrings == {p \o n \o x \o p : p \in Pads, n \in Numerals, x \in Suffixes}

InitDur == InitStats

\* parse_duration / parse_timeout: parse_duration_string on the argument
ParseDuration ==
  /\ parsed = <<>>
  /\ \E s \in DurationStrings :
       \E r \in ParseDurationString(s) :
         parsed' = <<[s |-> s, result |-> r]>>
  /\ UNCHANGED <<cfgVars, curlVars, peerVars, tplVars, histVars, liveVars, config, poolVars, selVars, now, taskVars,
                 connVars, chanVars, collVars, mainVars>>

NextDur == ParseDuration

SpecDur == InitDur /\ [][NextDur]_vars

\* ------------------------------------------------------------------ C25

\* the suffix a duration string carries, "ms" before "s"
SuffixOf(t) ==
  IF EndsWith(t, <<"m", "s">>) THEN <<"m", "s">>
  ELSE IF EndsWith(t, <<"s">>) THEN <<"s">>
  ELSE IF EndsWith(t, <<"m">>) THEN <<"m">>
  ELSE IF EndsWith(t, <<"h">>) THEN <<"h">>
  ELSE <<>>

\* the text before that suffix
NumericPart(t) == DropLast(t, Len(SuffixOf(t)))

\* the duration a decimal natural number n with suffix x denotes
Denoted(n, x) ==
  IF x = <<"m", "s">> THEN FromMillis(n)
  ELSE IF x = <<"m">> THEN FromSecs(Times(n, 60))
  ELSE IF x = <<"h">> THEN FromSecs(Times(n, 3600))
  ELSE FromSecs(n)

\* C25 (as stated): for every decimal natural number n, parse_duration_string yields
\* n milliseconds for n followed by "ms", n seconds for "s" or no suffix, 60n seconds
\* for "m" and 3600n seconds for "h", "ms" taking precedence over "s"; a string whose
\* numeric part is not a natural number yields an error.
C25_DurationParsing ==
  \A i \in 1..Len(parsed) :
    LET t == Trim(parsed[i].s)
        n == NumericPart(t)
    IN /\ AllDigits(n) => parsed[i].result = Denoted(Strip(Digits(n)), SuffixOf(t))
       /\ (~AllDigits(n) /\ ~(n # <<>> /\ n[1] = "+" /\ AllDigits(Tail(n)))) =>
            parsed[i].result.kind = "err"

\* ------------------------------------------------------------------ curl parsing alone

\* options put on the command lines tried
CurlOptions ==
  {<<"-", "X", " ", "G", "E", "T">>, <<"-", "X", " ", "p", "u", "t">>, <<"-", "-", "r", "e", "q", "u", "e", "s", "t", " ", "D", "E", "L", "E", "T", "E">>, <<"-", "d", " ", "'", "a", " ", "b", "'">>, <<"-", "-", "d", "a", "t", "a", "-", "r", "a", "w", " ", "x">>,
   <<"-", "-", "d", "a", "t", "a", "-", "u", "r", "l", "e", "n", "c", "o", "d", "e", " ", "k", "=", "v">>, <<"-", "-", "d", "a", "t", "a", "-", "b", "i", "n", "a", "r", "y", " ", "\"", "q", "'", "\"">>, <<"-", "H", " ", "'", "A", ":", " ", " ", "b", " ", "'">>,
   <<"-", "-", "h", "e", "a", "d", "e", "r", " ", "\"", " ", "K", "e", "y", " ", ":", "v", ":", "w", "\"">>, <<"-", "H", " ", "N", "o", "C", "o", "l", "o", "n">>, <<"-", "-", "c", "o", "m", "p", "r", "e", "s", "s", "e", "d">>}

\* the rest of the command lines tried: a URL, or nothing
CurlTargets == {<<"h", "t", "t", "p", ":", "/", "/", "h", "/", "p">>, <<>>}

\* the command lines given to --parse-curl
CurlCommands ==
  {<<"c", "u", "r", "l", " ">> \o a \o <<" ">> \o t : a \in CurlOptions \cup {<<>>}, t \in CurlTargets}
  \cup {<<"c", "u", "r", "l", " ">> \o a \o <<" ">> \o b \o <<" ", "h", "t", "t", "p", ":", "/", "/", "h", "/", "p">> : a \in CurlOptions, b \in CurlOptions}
  \cup {<<" ", " ", "h", "t", "t", "p", ":", "/", "/", "h", "/", "p", " ", "-", "X">>, <<"c", "u", "r", "l">>}

InitCurl == InitStats

\* parse_curl_command on the --parse-curl argument
ParseCurl ==
  /\ curl = <<>>
  /\ \E line \in CurlCommands :
       curl' = <<[cmd |-> line, result |-> ParseCurlCommand(line)]>>
  /\ UNCHANGED <<tplVars, durVars, cfgVars, peerVars, histVars, liveVars, config, poolVars, selVars, now,
                 taskVars, connVars, chanVars, collVars, mainVars>>

NextCurl == ParseCurl

SpecCurl == InitCurl /\ [][NextCurl]_vars

\* ------------------------------------------------------------------ C29

\* the tokens of the command line parsed
TokensOf(line) == TokenizeCurlCommand(WithoutCurl(Trim(line)))

\* the positions of the options among opts that are followed by a value
ValuedAt(tokens, opts) == {i \in 1..(Len(tokens) - 1) : tokens[i] \in opts}

\* the value of the last of those options
LastValue(tokens, opts) ==
  tokens[(CHOOSE i \in ValuedAt(tokens, opts) : \A j \in ValuedAt(tokens, opts) : j <= i) + 1]

\* C29 (as stated): the method is the one -X/--request gives, upper-cased, whenever
\* that option is present and wherever it stands relative to the data options; without
\* it the method is POST when a data option is present and GET otherwise; a header
\* "Name: value" is stored with name and value trimmed; the body is the data token
\* verbatim.
C29_CurlMethod ==
  \A n \in 1..Len(curl) :
    LET tokens == TokensOf(curl[n].cmd)
        c == curl[n].result.val
    IN curl[n].result.ok =>
         /\ c.method =
              IF ValuedAt(tokens, {<<"-", "X">>, <<"-", "-", "r", "e", "q", "u", "e", "s", "t">>}) # {}
              THEN ToUppercase(LastValue(tokens, {<<"-", "X">>, <<"-", "-", "r", "e", "q", "u", "e", "s", "t">>}))
              ELSE IF ValuedAt(tokens, DataOptions) # {} THEN <<"P", "O", "S", "T">> ELSE <<"G", "E", "T">>
         /\ \A i \in ValuedAt(tokens, {<<"-", "H">>, <<"-", "-", "h", "e", "a", "d", "e", "r">>}) :
              FindChar(tokens[i + 1], ":") > 0 =>
                LET name == Trim(SubSeq(tokens[i + 1], 1, FindChar(tokens[i + 1], ":") - 1)) IN
                /\ name \in DOMAIN c.headers
                /\ c.headers[name] = Trim(SkipTo(tokens[i + 1], FindChar(tokens[i + 1], ":")))
         /\ ValuedAt(tokens, DataOptions) # {} => c.body = <<LastValue(tokens, DataOptions)>>
         /\ ValuedAt(tokens, DataOptions) = {} => c.body = <<>>

\* ------------------------------------------------------------------ run_benchmark up to the start of the workers

\* a wide number that fits the integers of the model, as such an integer
RECURSIVE WideValue(_)
WideValue(n) == IF Len(n) = 1 THEN n[1] ELSE 10 * WideValue(DropLast(n, 1)) + n[Len(n)]

\* Duration::as_millis
AsMillis(d) == WideValue(d.secs) * 1000 + d.millis

\* where the request templates come from: --parse-curl, --parse-curl-file (the lines
\* of the file) or the URL argument, each given or not
Sources ==
  {[parse_curl |-> <<>>, parse_curl_file |-> <<>>, url |-> <<>>],
   [parse_curl |-> <<>>, parse_curl_file |-> <<>>, url |-> <<<<"h", "t", "t", "p", ":", "/", "/", "h", "/", "{", "{", "i", "d", "}", "}">>>>],
   [parse_curl |-> <<<<"c", "u", "r", "l", " ", "h", "t", "t", "p", ":", "/", "/", "h", "/", "p">>>>, parse_curl_file |-> <<>>, url |-> <<>>],
   [parse_curl |-> <<<<"c", "u", "r", "l", " ", "-", "X", " ", "G", "E", "T">>>>, parse_curl_file |-> <<>>, url |-> <<<<"h", "t", "t", "p", ":", "/", "/", "h", "/", "p">>>>],
   [parse_curl |-> <<>>, parse_curl_file |-> <<<<<<"#", " ", "c">>, <<"c", "u", "r", "l", " ", "h", "t", "t", "p", ":", "/", "/", "h", "/", "a">>, <<"c", "u", "r", "l">>>>>>,
    url |-> <<>>],
   [parse_curl |-> <<>>, parse_curl_file |-> <<<<<<>>>>>>, url |-> <<>>]}

\* the --var lists tried
VarLists ==
  {<<>>, <<<<"i", "d", "=", "r", "a", "n", "d", "o", "m", ":", "1", "-", "2">>>>, <<<<"i", "d", "=", "r", "a", "n", "d", "o", "m", ":", "1">>>>, <<<<"i", "d">>>>, <<<<"i", "d", "=", "r", "a", "n", "d", "o", "m", ":", "2", "-", "1">>>>,
   <<<<"n", "=", "s", "e", "q", "u", "e", "n", "c", "e", ":", "5">>, <<"i", "d", "=", "c", "h", "o", "i", "c", "e", ":", "a", ",", "b">>>>}

\* the --duration and --timeout strings tried
DurationArgStrings == {<<"1", "s">>, <<"5", "0", "0", "m", "s">>, <<"x">>, <<>>}
TimeoutArgStrings == {<<"1", "s">>, <<"0">>, <<"5", "q">>}

\* the Args tried
ArgsSet ==
  {[source |-> s, vars |-> v, duration |-> d, timeout |-> t, live_ui |-> l,
    threads |-> 1, connections |-> 1] :
     s \in Sources, v \in VarLists, d \in DurationArgStrings, t \in TimeoutArgStrings,
     l \in BOOLEAN}

InitCfg == InitStats

\* run_benchmark is called
RbEnter ==
  /\ rb.at = "none"
  /\ \E a \in ArgsSet : args' = <<a>>
  /\ rb' = [rb EXCEPT !.at = "commands"]
  /\ UNCHANGED <<tplVars, durVars, curlVars, peerVars, histVars, liveVars, config, poolVars, selVars, now,
                 taskVars, connVars, chanVars, collVars, mainVars>>

\* the lines of a curl file that parse_curl_file turns into commands
ValidLines(lines) ==
  {i \in 1..Len(lines) :
     /\ Trim(lines[i]) # <<>>
     /\ Trim(lines[i])[1] # "#"
     /\ ParseCurlCommand(Trim(lines[i])).ok}

\* the number of commands run_benchmark builds, 0 standing for the error return
CommandsOf(s) ==
  IF s.parse_curl # <<>> THEN (IF ParseCurlCommand(s.parse_curl[1]).ok THEN 1 ELSE 0)
  ELSE IF s.parse_curl_file # <<>> THEN Cardinality(ValidLines(s.parse_curl_file[1]))
  ELSE IF s.url # <<>> THEN 1
  ELSE 0

\* the commands are built, or run_benchmark returns the error
RbCommands ==
  /\ rb.at = "commands"
  /\ IF CommandsOf(args[1].source) = 0
     THEN rb' = [rb EXCEPT !.at = "error"] /\ UNCHANGED commands
     ELSE rb' = [rb EXCEPT !.at = "vars", !.i = 1] /\ commands' = CommandsOf(args[1].source)
  /\ UNCHANGED <<args, tplVars, durVars, curlVars, peerVars, histVars, liveVars, threads, connections,
                 load_strategy, live_ui, timeout, rate, end_time, actual_threads,
                 connections_per_thread, poolVars, selVars, now, taskVars, connVars, chanVars,
                 collVars, mainVars>>

\* one round of the --var loop: an argument with no '=' is skipped, a definition that
\* does not parse makes run_benchmark return the error
RbVar ==
  /\ rb.at = "vars"
  /\ rb.i <= Len(args[1].vars)
  /\ LET var == args[1].vars[rb.i]
         r == ParseVariableDefinition(DefinitionOf(var))
     IN IF FindChar(var, "=") = 0
          THEN rb' = [rb EXCEPT !.i = @ + 1] /\ UNCHANGED <<variables, sequences, add_result>>
        ELSE IF r.ok
          THEN /\ variables' = Insert(variables, NameOf(var), r.val)
               /\ sequences' = IF r.val.kind = "Sequence"
                               THEN Insert(sequences, NameOf(var), r.val.start)
                               ELSE sequences
               /\ add_result' = "ok"
               /\ rb' = [rb EXCEPT !.i = @ + 1]
        ELSE /\ add_result' = "err"
             /\ rb' = [rb EXCEPT !.at = "error"]
             /\ UNCHANGED <<variables, sequences>>
  /\ UNCHANGED <<args, calls, durVars, curlVars, peerVars, histVars, liveVars, config, poolVars, selVars,
                 now, taskVars, connVars, chanVars, collVars, mainVars>>

\* args.parse_duration()?
RbDuration ==
  /\ rb.at = "vars"
  /\ rb.i > Len(args[1].vars)
  /\ \E r \in ParseDurationString(args[1].duration) :
       /\ parsed' = <<[s |-> args[1].duration, result |-> r]>>
       /\ rb' = IF r.kind = "ok" THEN [rb EXCEPT !.at = "timeout", !.duration = AsMillis(r)]
                ELSE IF r.kind = "err" THEN [rb EXCEPT !.at = "error"]
                ELSE [rb EXCEPT !.at = "panicked"]
  /\ UNCHANGED <<args, tplVars, curlVars, peerVars, histVars, liveVars, config, poolVars, selVars, now,
                 taskVars, connVars, chanVars, collVars, mainVars>>

\* args.parse_timeout()?, evaluated as an argument of the call of run_workers or
\* run_benchmark_with_ui
RbTimeout ==
  /\ rb.at = "timeout"
  /\ \E r \in ParseDurationString(args[1].timeout) :
       /\ parsed' = <<[s |-> args[1].timeout, result |-> r]>>
       /\ rb' = IF r.kind = "ok" THEN [rb EXCEPT !.at = "run", !.timeout = AsMillis(r)]
                ELSE IF r.kind = "err" THEN [rb EXCEPT !.at = "error"]
                ELSE [rb EXCEPT !.at = "panicked"]
  /\ UNCHANGED <<args, tplVars, curlVars, peerVars, histVars, liveVars, config, poolVars, selVars, now,
                 taskVars, connVars, chanVars, collVars, mainVars>>

\* run_workers or run_benchmark_with_ui is entered: the deadline is taken, the pool
\* created, the worker threads and their tasks and the collector spawned
RbRun ==
  /\ rb.at = "run"
  /\ LET a == args[1]
         n == IF a.live_ui THEN ActualThreadsUi(a.threads) ELSE ActualThreads(a.threads)
         k == IF a.live_ui THEN ConnectionsPerThreadUi(a.connections, a.threads)
                           ELSE ConnectionsPerThread(a.connections, a.threads)
         T == 1..(n * k)
     IN /\ threads' = a.threads
        /\ connections' = a.connections
        /\ live_ui' = a.live_ui
        /\ timeout' = rb.timeout
        /\ end_time' = Ticks(rb.duration)
        /\ actual_threads' = n
        /\ connections_per_thread' = k
        /\ pool' = [NewPool(PoolSize(n)) EXCEPT !.next_index = Cardinality(T)]
        /\ client' = [t \in T |-> {(t - 1) % PoolSize(n)}]
        /\ handed' = [i \in 1..Cardinality(T) |-> <<i - 1, (i - 1) % PoolSize(n)>>]
        /\ pc' = [t \in T |-> "check"]
        /\ request_count' = [t \in T |-> 0]
        /\ elapsed' = [t \in T |-> 0]
        /\ slept' = [t \in T |-> 0]
        /\ send_request' = [t \in T |-> "None"]
        /\ cmd' = [t \in T |-> 0]
        /\ picked' = [t \in T |-> <<>>]
        /\ since_start' = [t \in T |-> 0]
        /\ client_state' = [t \in T |-> "None"]
        /\ inflight' = [t \in T |-> 0]
        /\ established' = [t \in T |-> 0]
        /\ clean' = [t \in T |-> TRUE]
  /\ cpc' = "recv"
  /\ mpc' = "join"
  /\ rb' = [rb EXCEPT !.at = "running"]
  /\ UNCHANGED <<args, tplVars, durVars, curlVars, peerVars, histVars, liveVars, commands, load_strategy,
                 rate, now, chanVars, waited, stats, shared, log, last>>

NextCfg == RbEnter \/ RbCommands \/ RbVar \/ RbDuration \/ RbTimeout \/ RbRun

SpecCfg == InitCfg /\ [][NextCfg]_vars

\* ------------------------------------------------------------------ C24

\* no worker thread spawned, no connection pool created, no request issued
NoWorkStarted ==
  /\ actual_threads = 0
  /\ pool = NewPool(0)
  /\ pc = <<>>
  /\ request_count = <<>>
  /\ q = <<>>

\* a --var argument that defines nothing usable: no '=', a definition the parser
\* rejects, or a random range with no number in it
InvalidVar(var) ==
  \/ FindChar(var, "=") = 0
  \/ ~ParseVariableDefinition(DefinitionOf(var)).ok
  \/ GenerateValue(ParseVariableDefinition(DefinitionOf(var)).val) = {Panicked}

\* a duration string that does not parse
Unparseable(s) == \A r \in ParseDurationString(s) : r.kind = "err"

\* the configuration errors of the claim
ConfigError(a) ==
  \/ a.source.parse_curl = <<>> /\ a.source.parse_curl_file = <<>> /\ a.source.url = <<>>
  \/ \E i \in 1..Len(a.vars) : InvalidVar(a.vars[i])
  \/ Unparseable(a.duration)
  \/ Unparseable(a.timeout)

\* C24 (as stated): with no URL, curl command or curl file, with an invalid --var
\* definition, or with a duration or timeout string that does not parse, run_benchmark
\* returns an error, and no worker thread has been spawned, no connection pool created
\* and no request issued, on either path.
C24_ConfigErrorsBeforeWork ==
  /\ rb.at = "error" => NoWorkStarted
  /\ (rb.at # "none" /\ ConfigError(args[1])) => (rb.at # "running" /\ NoWorkStarted)

\* ------------------------------------------------------------------ C31

\* the tasks the worker threads host, spawned or about to be
TotalTasks == Cardinality(DOMAIN pc)

\* C31 as stated: the number of tasks spawned never exceeds the requested connection
\* count C and falls short of it by less than the number of worker threads, for
\* every C >= 0.
C31_TotalWithinRequested ==
  /\ TotalTasks <= connections
  /\ connections - TotalTasks < actual_threads

\* C31: the number of tasks is threads x max(1, C div threads). When C is at least
\* the number of worker threads it never exceeds C and falls short of it by less than
\* the number of threads; when C is smaller (C = 0 included) every thread still hosts
\* one task, so the total is the number of threads and exceeds C.
C31_TotalTasks ==
  /\ TotalTasks = actual_threads * connections_per_thread
  /\ connections >= actual_threads =>
       /\ TotalTasks <= connections
       /\ connections - TotalTasks < actual_threads
  /\ connections < actual_threads =>
       /\ connections_per_thread = 1
       /\ TotalTasks = actual_threads
       /\ TotalTasks > connections

\* C31 witness: 5 connections on 2 threads have given 4 tasks, all spawned.
C31_Witness ==
  /\ connections = 5
  /\ actual_threads = 2
  /\ TotalTasks = 4
  /\ \A t \in Tasks : pc[t] = "check"

\* ------------------------------------------------------------------ C32

\* the updater publishes a snapshot in this step
PeriodicSend == snapshots_sent' # snapshots_sent

\* the driver's final send happens in this step
FinalSend == mpc = "final" /\ mpc' # "final"

C32_Step ==
  /\ PeriodicSend =>
       /\ usince >= Ticks(UpdateIntervalMs)
       /\ snapshots_sent' = snapshots_sent + 1
       /\ usince' = 0
       /\ ui_chan' = ui_chan \o <<CHOOSE x \in usnap : TRUE>>
       /\ shared' = shared
  /\ FinalSend =>
       /\ cpc = "done"
       /\ mpc' = "sleep"
       /\ stats' = stats
       /\ ui = "run" => ui_chan' = Append(ui_chan, FromStatistics(stats))
       /\ ui # "run" => ui_chan' = ui_chan
  /\ mpc' = "final" => (mpc \in {"returned", "final"} /\ cpc = "done")
  /\ Len(ui_chan') > Len(ui_chan) => (PeriodicSend \/ FinalSend)
  /\ (stats' # stats \/ shared' # shared) => (ui_chan' = ui_chan /\ snapshots_sent' = snapshots_sent)

\* C32: the updater publishes a snapshot only when 500 ms have passed since the last
\* one (never one per outcome: a record call publishes nothing), and once the
\* collector has finished the driver sends exactly one final snapshot, built from the
\* returned Statistics.
C32_SnapshotCadence == [][C32_Step]_vars

\* C32 witness: two periodic snapshots were published, the collector has finished and
\* the final snapshot of the returned Statistics is the last one in the channel of a
\* UI that is still running.
C32_Witness ==
  /\ snapshots_sent = 2
  /\ mpc = "sleep"
  /\ ui = "run"
  /\ stats.total_requests > 0
  /\ ui_chan # <<>>
  /\ ui_chan[Len(ui_chan)] = FromStatistics(stats)

\* ------------------------------------------------------------------ snapshots of a Statistics (stats.rs)

\* StatisticsSnapshot::from_statistics(&stats), by any caller at any instant; the
\* caller keeps the snapshot
TakeSnapshot ==
  /\ usnap' = {FromStatistics(stats)}
  /\ UNCHANGED <<config, poolVars, selVars, now, taskVars, connVars, chanVars, collVars, mainVars,
                 histVars, pureVars, uiVars, upc, uabort, snapshots_sent, usince, mutex>>

InitSnap == InitFinish

NextSnap == RecordSome \/ FinishAny \/ TakeSnapshot \/ Tick

SpecSnap == InitSnap /\ [][NextSnap]_vars

\* ------------------------------------------------------------------ C33

\* snapshot snap carries the counters and the maps of Statistics s
CopyOf(snap, s) ==
  /\ snap.total_requests = s.total_requests
  /\ snap.successful_requests = s.successful_requests
  /\ snap.failed_requests = s.failed_requests
  /\ snap.total_bytes = s.total_bytes
  /\ snap.status_codes = s.status_codes
  /\ snap.errors = s.errors
  /\ DOMAIN snap.endpoint_stats = DOMAIN s.endpoint_stats
  /\ \A u \in DOMAIN s.endpoint_stats :
       /\ snap.endpoint_stats[u].requests = s.endpoint_stats[u].requests
       /\ snap.endpoint_stats[u].errors = s.endpoint_stats[u].errors
       /\ snap.endpoint_stats[u].total_bytes = s.endpoint_stats[u].total_bytes
       /\ snap.endpoint_stats[u].status_codes = s.endpoint_stats[u].status_codes

C33_Step ==
  /\ usnap' # usnap =>
       /\ \E snap \in usnap' : usnap' = {snap} /\ CopyOf(snap, stats)
       /\ stats' = stats
  /\ stats' # stats => usnap' = usnap

\* C33: a snapshot is a point-in-time copy: from_statistics leaves the Statistics
\* unchanged, the snapshot's counters and status-code, error and endpoint maps are
\* those of the Statistics at the moment of the call, and no later record or finish
\* on the Statistics changes a snapshot already taken.
C33_PointInTime == [][C33_Step]_vars

\* C33 witness: a snapshot taken after one successful request on /a is still that
\* of one request after a failure was recorded and the Statistics was finished.
C33_Witness ==
  /\ \E snap \in usnap :
       /\ snap.total_requests = 1
       /\ snap.errors = <<>>
       /\ DOMAIN snap.endpoint_stats = {"/a"}
       /\ snap.endpoint_stats["/a"].requests = 1
  /\ stats.total_requests = 2
  /\ stats.failed_requests = 1
  /\ stats.end_time # {}

\* ------------------------------------------------------------------ C34

\* the places where a range MIN-MAX of two signed integers with MIN <= MAX divides
RangeSplits(r) ==
  {i \in 2..(Len(r) - 1) :
     /\ r[i] = "-"
     /\ ParseI64(SubSeq(r, 1, i - 1)).ok
     /\ ParseI64(SkipTo(r, i)).ok
     /\ ParseI64(SubSeq(r, 1, i - 1)).val <= ParseI64(SkipTo(r, i)).val}

\* random:MIN-MAX with MIN <= MAX
IsRandomRange(name) ==
  StartsWith(name, <<"r", "a", "n", "d", "o", "m", ":">>) /\ RangeSplits(SkipTo(name, 7)) # {}

\* an inline generator of the documented grammar
RecognisedInline(name) ==
  \/ name \in {<<"u", "u", "i", "d">>, <<"t", "i", "m", "e", "s", "t", "a", "m", "p">>, <<"n", "o", "w">>}
  \/ IsRandomRange(name)
  \/ StartsWith(name, <<"t", "i", "m", "e", "s", "t", "a", "m", "p", ":">>) /\ ParseTimestampFormat(SkipTo(name, 10)).ok
  \/ StartsWith(name, <<"n", "o", "w", ":">>) /\ ParseTimestampFormat(SkipTo(name, 4)).ok
  \/ StartsWith(name, <<"s", "e", "q", "u", "e", "n", "c", "e", ":">>) /\ AllDigits(SkipTo(name, 9))
  \/ StartsWith(name, <<"c", "h", "o", "i", "c", "e", ":">>) /\ SkipTo(name, 7) # <<>>

\* the text has a placeholder, and each one is a defined variable or a well-formed
\* inline generator
AllRecognised(s) ==
  /\ Placeholders(s) # <<>>
  /\ \A i \in 1..Len(Placeholders(s)) :
       Placeholders(s)[i] \in DOMAIN variables \/ RecognisedInline(Placeholders(s)[i])

\* two open braces occur in s
HasOpenBraces(s) == \E i \in 1..(Len(s) - 1) : s[i] = "{" /\ s[i + 1] = "{"

\* v is a value the placeholder name may be replaced by
FitsValue(name, v) ==
  IF name \in DOMAIN variables THEN TRUE
  ELSE IF IsRandomRange(name)
    THEN /\ ParseI64(v).ok
         /\ \E i \in RangeSplits(SkipTo(name, 7)) :
              /\ ParseI64(SubSeq(SkipTo(name, 7), 1, i - 1)).val <= ParseI64(v).val
              /\ ParseI64(v).val <= ParseI64(SkipTo(SkipTo(name, 7), i)).val
  ELSE IF name = <<"u", "u", "i", "d">> THEN Len(v) = 36
  ELSE TRUE

RECURSIVE Substituted(_, _)
\* out is s with every placeholder replaced by a fitting value and the parts
\* outside the placeholders unchanged and in order
Substituted(s, out) ==
  IF s = <<>> THEN out = <<>>
  ELSE IF MatchesAtHead(s)
    THEN \E k \in 0..Len(out) :
           /\ FitsValue(Capture(s), SubSeq(out, 1, k))
           /\ Substituted(AfterMatch(s), SkipTo(out, k))
  ELSE /\ out # <<>>
       /\ Head(out) = Head(s)
       /\ Substituted(Tail(s), Tail(out))

\* C34 (as stated): for a text whose placeholders are all well-formed inline
\* generators or defined variables, process returns a text in which the parts outside
\* the placeholders are unchanged and in order and no two open braces remain;
\* {{random:MIN-MAX}} with MIN <= MAX becomes a decimal integer between MIN and MAX
\* and {{uuid}} a UUID of 36 characters.
C34_FullySubstituted ==
  \A i \in 1..Len(calls) :
    AllRecognised(calls[i].text) =>
      /\ ~calls[i].result.panic
      /\ ~HasOpenBraces(calls[i].result.text)
      /\ Substituted(calls[i].text, calls[i].result.text)

\* ------------------------------------------------------------------ one task, several servers

\* a headless run of one task over two templates taken in turn, that lasts half a
\* second
InitConn ==
  /\ threads = 1
  /\ connections = 1
  /\ commands = 2
  /\ load_strategy = RoundRobin
  /\ live_ui = FALSE
  /\ rate = 0
  /\ timeout = 1000
  /\ end_time = Ticks(500)
  /\ Started
  /\ AtStart

NextConn ==
  \/ \E t \in Tasks : TaskCheck(t)
  \/ \E t \in Tasks : TaskStart(t)
  \/ \E t \in Tasks : RequestInvalid(t)
  \/ \E t \in Tasks : ConnectOk(t)
  \/ \E t \in Tasks : ConnectFail(t)
  \/ \E t \in Tasks : ReadyOk(t)
  \/ \E t \in Tasks : ReadyErr(t)
  \/ \E t \in Tasks : SendOk(t)
  \/ \E t \in Tasks : SendErr(t)
  \/ \E t \in Tasks : RequestTimeout(t)
  \/ CollectorRecv
  \/ CollectorFinish
  \/ MainJoin
  \/ Tick

SpecConn == InitConn /\ [][NextConn]_vars

\* ------------------------------------------------------------------ C35

\* task t hands its request to the sender in this step
Sends(t) == pc[t] # "send" /\ pc'[t] = "send"

\* C35 (as stated): every request is sent over a connection that was established to
\* the authority of that request's URL; the sender kept in a ClientState for one
\* authority is never used for a request addressed to another.
C35_SameAuthority ==
  [][\A t \in Tasks : Sends(t) => peer[StateOf(t)] = Authority(cmd[t])]_vars

\* ------------------------------------------------------------------ C36

\* outcome r has a status and no error, or an error, no status and no bytes
ExactlyOne(r) ==
  \/ r.status_code # {} /\ r.error = {}
  \/ r.status_code = {} /\ r.error # {} /\ r.bytes_read = 0

\* sum(errors.values) of s
ErrorSum(s) == SumOver(s.errors, DOMAIN s.errors)

C36_Inv ==
  /\ \A i \in 1..Len(q) : ExactlyOne(q[i])
  /\ \A s \in {stats, shared} :
       /\ StatusSum(s) = s.successful_requests
       /\ ErrorSum(s) = s.failed_requests

C36_Step ==
  /\ \A t \in Tasks :
       (Returns(t) /\ Len(q') = Len(q) + 1) =>
         /\ ExactlyOne(Appended)
         /\ Appended.status_code # {} => (pc[t] = "send" /\ Appended.status_code \subseteq StatusSet)
  /\ stats'.total_requests # stats.total_requests =>
       /\ q # <<>>
       /\ Head(q).status_code # {} =>
            /\ stats'.successful_requests = stats.successful_requests + 1
            /\ stats'.failed_requests = stats.failed_requests
       /\ Head(q).error # {} =>
            /\ stats'.failed_requests = stats.failed_requests + 1
            /\ stats'.successful_requests = stats.successful_requests
            /\ stats'.total_bytes = stats.total_bytes

\* C36: every outcome a worker composes has exactly one of status and error: a
\* response of any status code gives a status and no error and is counted as
\* successful, a failed request gives an error, no status and bytes_read = 0. Hence
\* the status counts sum to successful_requests and the error counts to
\* failed_requests, at the end of the run as at any point of it, and a failed outcome
\* adds nothing to total_bytes.
C36_OneOfStatusAndError == []C36_Inv /\ [][C36_Step]_vars

\* C36 witness: a finished headless run of one answered request, status 500, and one
\* failed request: one success, one failure, the bytes of the answered one.
C36_Witness ==
  /\ mpc = "returned"
  /\ ~live_ui
  /\ stats.total_requests = 2
  /\ DOMAIN stats.status_codes = {500}
  /\ stats.successful_requests = 1
  /\ stats.failed_requests = 1
  /\ ErrorSum(stats) = 1
  /\ stats.total_bytes = 4

\* ------------------------------------------------------------------ a run that outlasts the request timeout

\* a headless run of one task and one template whose duration, a second and a
\* half, is longer than the request timeout of one second
InitLong ==
  /\ threads = 1
  /\ connections = 1
  /\ commands = 1
  /\ load_strategy = Random
  /\ live_ui = FALSE
  /\ rate = 0
  /\ timeout = 1000
  /\ end_time = Ticks(1500)
  /\ Started
  /\ AtStart

SpecLong == InitLong /\ [][NextConn]_vars

\* ------------------------------------------------------------------ C37

\* the errors of a request that timed out or could not connect or shake hands
DropErrors == {ErrTimeout, ErrConnect, ErrHandshake}

C37_Step ==
  \A t \in Tasks :
    /\ (Returns(t) /\ cpc # "done" /\ Appended.error \cap DropErrors # {}) =>
         /\ client_state'[StateOf(t)] = "None"
         /\ send_request'[t] = "None"
         /\ established'[t] = established[t]
    /\ (pc[t] = "start" /\ pc'[t] # "start" /\ ~Returns(t) /\ client_state[StateOf(t)] = "None") =>
         pc'[t] = "connect"
    /\ (send_request[t] = "None" /\ send_request'[t] # "None") =>
         \/ established'[t] = established[t] + 1
         \/ client_state[StateOf(t)] # "None" /\ client_state'[StateOf(t)] = "None"

\* C37: after a request that ends with Timeout, connect failure or handshake failure
\* the ClientState holds no sender: the sender in use when the timer fired is dropped
\* with the request and not stored back, a request gets a sender only from the
\* ClientState or from a new connection, and so the next request starts by
\* establishing a new connection.
C37_SenderDropped == [][C37_Step]_vars

\* C37 witness: the task's first request timed out on its first connection, and its
\* second request was answered on a second connection.
C37_Witness ==
  /\ Len(q) = 2
  /\ q[1].task = 1 /\ q[1].error = {ErrTimeout}
  /\ q[2].task = 1 /\ q[2].status_code # {}
  /\ established[1] = 2
  /\ client_state[StateOf(1)] = "Some"

\* ------------------------------------------------------------------ C38

\* the collector is between two receives, or has left its loop and finished both
\* copies
BetweenReceives == cpc \in {"recv", "drain", "done"}

\* total_requests does not decrease along the snapshots waiting in the UI channel
NonDecreasing(ch) ==
  \A i \in 1..Len(ch) : \A j \in i..Len(ch) : ch[i].total_requests <= ch[j].total_requests

\* snapshot s counts every request as successful or failed
Balanced(s) == s.total_requests = s.successful_requests + s.failed_requests

\* C38, the two copies: whenever the collector is between two receives, and at its
\* exit, the counters and maps of the shared Statistics equal those of its own.
C38_CopiesEqual == BetweenReceives => FromStatistics(shared) = FromStatistics(stats)

\* C38, the snapshots: every published snapshot has total_requests =
\* successful_requests + failed_requests.
C38_SnapshotsBalanced ==
  /\ \A i \in 1..Len(ui_chan) : Balanced(ui_chan[i])
  /\ \A s \in usnap : Balanced(s)

\* C38 (as stated): the two copies are equal between receives and at collector exit,
\* every published snapshot is balanced, and total_requests is non-decreasing over
\* the sequence of published snapshots, the final snapshot being the largest.
C38_SharedFollowsCollector ==
  /\ C38_CopiesEqual
  /\ C38_SnapshotsBalanced
  /\ NonDecreasing(ui_chan)
  /\ mpc \in {"sleep", "await_ui", "finished"} =>
       \A i \in 1..Len(ui_chan) : ui_chan[i].total_requests <= stats.total_requests

\* ------------------------------------------------------------------ C39

\* the sum over all endpoints of s of the field that pick selects
EndpointSum(s, pick(_)) ==
  SumOver([u \in DOMAIN s.endpoint_stats |-> pick(s.endpoint_stats[u])], DOMAIN s.endpoint_stats)

EntryRequests(e) == e.requests
EntryErrors(e) == e.errors
EntryBytes(e) == e.total_bytes

\* the endpoint entries a step has created or changed
EntriesChanged ==
  {u \in DOMAIN stats'.endpoint_stats : EntryOf(stats, u) # stats'.endpoint_stats[u]}

C39_Inv ==
  commands > 1 =>
    \A s \in {stats, shared} :
      /\ EndpointSum(s, EntryRequests) = s.total_requests
      /\ EndpointSum(s, EntryErrors) = s.failed_requests
      /\ EndpointSum(s, EntryBytes) = s.total_bytes
      /\ DOMAIN s.endpoint_stats \subseteq ActiveUrls

C39_Step ==
  (commands > 1 /\ stats'.total_requests # stats.total_requests) =>
    /\ Cardinality(EntriesChanged) = 1
    /\ DOMAIN stats.endpoint_stats \subseteq DOMAIN stats'.endpoint_stats

\* C39: in a run with more than one template each recorded outcome updates exactly
\* one endpoint entry, so between any two record calls the endpoints' requests sum
\* to total_requests, their errors to failed_requests and their bytes to
\* total_bytes; the entries are keyed by the templates' URLs.
C39_EndpointsPartition == []C39_Inv /\ [][C39_Step]_vars

\* C39 witness: a run over two templates has recorded three outcomes, one of them a
\* failure, under two endpoint entries.
C39_Witness ==
  /\ commands = 2
  /\ stats.total_requests = 3
  /\ stats.failed_requests = 1
  /\ stats.total_bytes = 8
  /\ Cardinality(DOMAIN stats.endpoint_stats) = 2
  /\ EndpointSum(stats, EntryErrors) = 1

====
